---- MODULE Spec2Model ----
(***************************************************************************)
(* Model of scripts/data_ingestion.py: the SalesDataPipeline class (a      *)
(* DuckDB connection, three base tables, two derived tables), its          *)
(* run_pipeline orchestrator and main; and of the utility functions of     *)
(* scripts/test_functions.py.  Amounts are in cents, dates are integers    *)
(* yyyymmdd, a nullable column value is <<>> (NULL) or <<v>>.              *)
(***************************************************************************)
EXTENDS Integers, Sequences, FiniteSets, TLC

\* ------------------------------------------------------------------ bounds
MaxRows == 2          \* longest sales.csv the environment writes
MaxCalls == 2         \* top-level calls made on one pipeline object
MaxFaults == 1        \* engine-level failures injected into conn.execute

\* ------------------------------------------------------------- SQL values
Null == <<>>
V(x) == <<x>>
IsNull(x) == x = Null

NoExc == "none"

\* -------------------------------------------------------------- input data
Sale(t, p, c, d, a, r) ==
  [transaction_id |-> V(t), product_id |-> p, customer_id |-> c, sale_date |-> d,
   quantity |-> 1, unit_price |-> 200, total_amount |-> a, region |-> r,
   sales_rep |-> "rep"]

Product(p, n, c) ==
  [product_id |-> p, name |-> n, category |-> "cat", subcategory |-> "sub",
   brand |-> "brand", cost |-> c, price |-> 300, margin |-> 10]

Region(r) ==
  [region_id |-> V(r), region_name |-> "name", country |-> "country",
   timezone |-> "tz", manager |-> "mgr", target_revenue |-> 1000]

\* a sale of two units at another price
Sale2(p, c, d, a, r) == [Sale("T2", p, c, d, a, r) EXCEPT !.quantity = 2, !.unit_price = 150]

Todays == {20240601}

\* rows the environment can put into a sales CSV file
GoodSale1 == Sale("T1", V("P1"), V("C1"), 20240115, V(200), "North")
GoodSale2 == Sale2(V("P2"), V("C1"), 20240220, V(300), "South")
NullProductSale == Sale("T1", Null, V("C1"), 20240115, V(200), "North")

SaleRows ==
  { GoodSale1,
    NullProductSale,
    Sale("T1", V("P1"), Null, 20240115, V(200), "North"),
    Sale("T1", V("P1"), V("C1"), 20240115, Null, "North"),
    GoodSale2,
    Sale2(V("P1"), V("C1"), 20240125, V(0 - 100), "North"),
    Sale2(V("P1"), V("C1"), 20250101, V(300), "North"),
    Sale2(Null, Null, 20250101, Null, "South") }

\* records the environment can put into a products JSON file
Product1 == Product(V("P1"), V("Widget"), 100)
Product2 == Product(V("P2"), Null, 0)
NullIdProduct == Product(Null, V("Gadget"), 100)
Product3 == Product(V("P3"), V("Gizmo"), 100)

RECURSIVE SeqsUpTo(_, _)
SeqsUpTo(S, n) ==
  IF n = 0 THEN { <<>> }
  ELSE LET shorter == SeqsUpTo(S, n - 1)
       IN  shorter \cup { Append(s, x) : s \in { t \in shorter : Len(t) = n - 1 }, x \in S }

File(kind, rows) == [kind |-> kind, rows |-> rows]
AbsentFile == File("absent", <<>>)
MalformedFile == File("malformed", <<>>)

\* what data/sales.csv, data/products.json and data/regions.parquet can hold
SalesFiles == { AbsentFile, MalformedFile } \cup { File("ok", s) : s \in SeqsUpTo(SaleRows, MaxRows) }

ProductsFiles ==
  { AbsentFile, MalformedFile, File("ok", <<>>), File("ok", <<Product1>>),
    File("ok", <<Product2>>), File("ok", <<Product1, Product2>>),
    File("ok", <<Product1, Product1>>), File("ok", <<NullIdProduct>>),
    File("ok", <<Product1, Product3>>) }

RegionsFiles == { AbsentFile, MalformedFile, File("ok", <<Region("R1")>>) }

FileSets == [sales : SalesFiles, products : ProductsFiles, regions : RegionsFiles]

\* the files of the sessions that make several calls on one pipeline object
FewSalesFiles ==
  { AbsentFile, MalformedFile, File("ok", <<>>), File("ok", <<GoodSale1>>),
    File("ok", <<GoodSale2>>), File("ok", <<GoodSale1, GoodSale2>>),
    File("ok", <<GoodSale1, NullProductSale>>) }

FewProductsFiles == { AbsentFile, File("ok", <<Product1>>), File("ok", <<Product1, Product2>>) }

FewRegionsFiles == { AbsentFile, File("ok", <<Region("R1")>>) }

FewFileSets == [sales : FewSalesFiles, products : FewProductsFiles, regions : FewRegionsFiles]

\* ------------------------------------------------------------------ tables
Table(columns, rows) == [exists |-> TRUE, columns |-> columns, rows |-> rows]
NoTable == [exists |-> FALSE, columns |-> <<>>, rows |-> {}]

\* the column lists of the CREATE TABLE statements
Columns ==
  [sales |-> <<"transaction_id", "product_id", "customer_id", "sale_date", "quantity",
               "unit_price", "total_amount", "region", "sales_rep">>,
   products |-> <<"product_id", "name", "category", "subcategory", "brand", "cost",
                  "price", "margin">>,
   regions |-> <<"region_id", "region_name", "country", "timezone", "manager",
                 "target_revenue">>,
   monthly_sales |-> <<"year", "month", "region", "transaction_count", "total_revenue",
                       "avg_transaction_value", "total_quantity">>,
   product_performance |-> <<"product_id", "name", "category", "brand", "transaction_count",
                             "total_revenue", "total_quantity_sold", "avg_selling_price",
                             "cost", "margin_percent">>]

BaseTables == {"sales", "products", "regions"}
DerivedTables == {"monthly_sales", "product_performance"}

EmptyDatabase ==
  [sales |-> NoTable, products |-> NoTable, regions |-> NoTable,
   monthly_sales |-> NoTable, product_performance |-> NoTable]

Range(s) == { s[i] : i \in 1..Len(s) }

\* ------------------------------------------------------------------- state
VARIABLES
  conn,        \* "open" | "closed": self.conn
  db,          \* the tables of the connection's database
  files,       \* data/sales.csv, data/products.json, data/regions.parquet
  today,       \* CURRENT_DATE
  mode,        \* "none" | "pipeline" | "direct": kind of the current/last top-level call
  pc,          \* "idle" or the method about to execute
  passed,      \* the file at the file_path a caller hands to a loader
  trace,       \* methods executed by the current/last top-level call, in order
  log,         \* logger records of the current/last top-level call
  outcome,     \* what the current/last top-level call gave its caller
  calls,       \* the top-level calls made so far, in order
  limit,       \* how many top-level calls this session makes
  engine,      \* how the connection's engine evaluates x / 0
  ret,         \* what the method executed last returned or raised
  faultsLeft,  \* engine faults still to be injected
  transaction, \* the record handed to validate_transaction_data
  validation,  \* what validate_transaction_data gave for it
  arguments,   \* price, cost and quantity handed to calculate_profit_metrics
  metrics,     \* what calculate_profit_metrics gave for them
  csv_file,    \* the file at the path handed to the two functions that read a CSV
  quality_report, \* what analyze_sales_data_quality gave for it
  results      \* what benchmark_data_loading gave for it

\* the state of the pipeline object and of its callers
pipelineVars ==
  <<conn, db, files, today, mode, pc, passed, trace, log, outcome, calls, limit, engine, ret, faultsLeft>>

\* the state of a call of a utility function
utilityVars == <<transaction, validation, arguments, metrics, csv_file, quality_report, results>>

vars == <<pipelineVars, utilityVars>>

\* ------------------------------------------------------ logging and results
LogRec(level, text, arg) == [level |-> level, text |-> text, arg |-> arg]

\* what one method hands back: the database it leaves, the exception it
\* raises (NoExc when it returns), its log records and its return value
Result(d, e, l, iss, sm) == [db |-> d, exc |-> e, log |-> l, issues |-> iss, summary |-> sm]

Outcome(kind, e, iss, sm) == [kind |-> kind, exc |-> e, issues |-> iss, summary |-> sm]
NoOutcome == Outcome("none", NoExc, <<>>, <<>>)

\* --------------------------------------------------------- SQL aggregates
RECURSIVE SumF(_, _)
SumF(S, f) ==
  IF S = {} THEN 0
  ELSE LET x == CHOOSE y \in S : TRUE IN f[x] + SumF(S \ {x}, f)

Abs(n) == IF n < 0 THEN 0 - n ELSE n

RECURSIVE GCD(_, _)
GCD(a, b) == IF b = 0 THEN a ELSE GCD(b, a % b)

\* an exact quotient n / d (d > 0), in lowest terms
Frac(n, d) ==
  LET g == GCD(Abs(n), d) IN [num |-> n \div g, den |-> d \div g]

\* SUM(total_amount): NULL inputs are skipped, NULL when nothing is left
SumAmount(rows) ==
  LET nn == { r \in rows : ~IsNull(r.total_amount) }
  IN  IF nn = {} THEN Null ELSE V(SumF(nn, [r \in nn |-> r.total_amount[1]]))

\* AVG(total_amount)
AvgAmount(rows) ==
  LET nn == { r \in rows : ~IsNull(r.total_amount) }
  IN  IF nn = {} THEN Null
      ELSE V(Frac(SumF(nn, [r \in nn |-> r.total_amount[1]]), Cardinality(nn)))

SumQuantity(rows) ==
  IF rows = {} THEN Null ELSE V(SumF(rows, [r \in rows |-> r.quantity]))

AvgUnitPrice(rows) ==
  IF rows = {} THEN Null
  ELSE V(Frac(SumF(rows, [r \in rows |-> r.unit_price]), Cardinality(rows)))

MinDate(rows) ==
  IF rows = {} THEN Null
  ELSE V(CHOOSE d \in { r.sale_date : r \in rows } : \A r \in rows : d <= r.sale_date)

MaxDate(rows) ==
  IF rows = {} THEN Null
  ELSE V(CHOOSE d \in { r.sale_date : r \in rows } : \A r \in rows : d >= r.sale_date)

Year(d) == d \div 10000
Month(d) == (d \div 100) % 100

\* ----------------------------------------------------------- setup_database
\* mutant: CREATE TABLE IF NOT EXISTS in place of CREATE OR REPLACE TABLE
CreateIfNotExists(d, t) == IF d[t].exists THEN d ELSE [d EXCEPT ![t] = Table(Columns[t], {})]

CreateOrReplace(d, t) == [d EXCEPT ![t] = Table(Columns[t], {})]

\* mutant: a setup_database that also drops the derived tables
SetupDatabaseRunDroppingDerived(d, c, k) ==
  LET start == <<LogRec("INFO", "Setting up database schema...", <<>>)>>
      d0 == [d EXCEPT !.monthly_sales = NoTable, !.product_performance = NoTable]
      d1 == CreateOrReplace(d0, "sales")
      d2 == CreateOrReplace(d1, "products")
      d3 == CreateOrReplace(d2, "regions")
  IN  IF c = "closed" THEN Result(d, "ConnectionException", start, <<>>, <<>>)
      ELSE IF k = 1 THEN Result(d0, "EngineError", start, <<>>, <<>>)
      ELSE IF k = 2 THEN Result(d1, "EngineError", start, <<>>, <<>>)
      ELSE IF k = 3 THEN Result(d2, "EngineError", start, <<>>, <<>>)
      ELSE Result(d3, NoExc,
                  start \o <<LogRec("INFO", "Database schema created successfully", <<>>)>>,
                  <<>>, <<>>)

\* mutant: a setup_database that leaves an existing regions table alone
SetupDatabaseRunKeepingRegions(d, c, k) ==
  LET start == <<LogRec("INFO", "Setting up database schema...", <<>>)>>
      d1 == CreateOrReplace(d, "sales")
      d2 == CreateOrReplace(d1, "products")
      d3 == IF d2.regions.exists THEN d2 ELSE CreateOrReplace(d2, "regions")
  IN  IF c = "closed" THEN Result(d, "ConnectionException", start, <<>>, <<>>)
      ELSE IF k = 1 THEN Result(d, "EngineError", start, <<>>, <<>>)
      ELSE IF k = 2 THEN Result(d1, "EngineError", start, <<>>, <<>>)
      ELSE IF k = 3 THEN Result(d2, "EngineError", start, <<>>, <<>>)
      ELSE Result(d3, NoExc,
                  start \o <<LogRec("INFO", "Database schema created successfully", <<>>)>>,
                  <<>>, <<>>)

\* k is the statement at which the engine fails (0: it does not)
SetupDatabaseRun(d, c, k) ==
  LET start == <<LogRec("INFO", "Setting up database schema...", <<>>)>>
      d1 == CreateOrReplace(d, "sales")
      d2 == CreateOrReplace(d1, "products")
      d3 == CreateOrReplace(d2, "regions")
  IN  IF c = "closed" THEN Result(d, "ConnectionException", start, <<>>, <<>>)
      ELSE IF k = 1 THEN Result(d, "EngineError", start, <<>>, <<>>)
      ELSE IF k = 2 THEN Result(d1, "EngineError", start, <<>>, <<>>)
      ELSE IF k = 3 THEN Result(d2, "EngineError", start, <<>>, <<>>)
      ELSE Result(d3, NoExc,
                  start \o <<LogRec("INFO", "Database schema created successfully", <<>>)>>,
                  <<>>, <<>>)

\* ------------------------------------------------------------------ loaders
\* mutant: uniqueness checked among the new rows only
KeyViolationWithinFileOnly(tableRows, newRows, key) ==
  \/ \E i \in 1..Len(newRows) : newRows[i][key] = Null
  \/ \E i, j \in 1..Len(newRows) : i # j /\ newRows[i][key] = newRows[j][key]

\* PRIMARY KEY: the key column is NOT NULL and unique in the table
KeyViolation(tableRows, newRows, key) ==
  \/ \E i \in 1..Len(newRows) : newRows[i][key] = Null
  \/ \E i, j \in 1..Len(newRows) : i # j /\ newRows[i][key] = newRows[j][key]
  \/ \E i \in 1..Len(newRows) : \E r \in tableRows : r[key] = newRows[i][key]

\* INSERT INTO t SELECT * FROM <reader>(file): one statement, all or nothing
InsertExc(d, t, f, key) ==
  IF ~d[t].exists THEN "CatalogException"
  ELSE IF f.kind = "absent" THEN "IOException"
  ELSE IF f.kind = "malformed" THEN "InvalidInputException"
  ELSE IF KeyViolation(d[t].rows, f.rows, key) THEN "ConstraintException"
  ELSE NoExc

\* mutant: the load replaces the rows of the table
InsertRowsReplacing(d, t, f) == [d EXCEPT ![t].rows = Range(f.rows)]

InsertRows(d, t, f) == [d EXCEPT ![t].rows = @ \cup Range(f.rows)]

\* mutant: a loader whose except clause re-raises without logging
LoaderResultSilent(d, e, start, name, okText) ==
  IF e # NoExc
    THEN Result(d, e, start, <<>>, <<>>)
    ELSE Result(d, NoExc, start \o <<LogRec("INFO", okText, <<Cardinality(d[name].rows)>>)>>, <<>>, <<>>)

\* the try/except of a loader: log the error and re-raise
LoaderResult(d, e, start, name, okText) ==
  IF e # NoExc
    THEN Result(d, e, start \o <<LogRec("ERROR", "Error loading " \o name \o " data", <<e>>)>>, <<>>, <<>>)
    ELSE Result(d, NoExc, start \o <<LogRec("INFO", okText, <<Cardinality(d[name].rows)>>)>>, <<>>, <<>>)

LoadSalesDataRun(d, c, f, k) ==
  LET start == <<LogRec("INFO", "Loading sales data from", <<"data/sales.csv">>)>>
      e1 == IF c = "closed" THEN "ConnectionException"
            ELSE IF k = 1 THEN "EngineError"
            ELSE InsertExc(d, "sales", f, "transaction_id")
      d1 == IF e1 = NoExc THEN InsertRows(d, "sales", f) ELSE d
      e2 == IF e1 # NoExc THEN e1 ELSE IF k = 2 THEN "EngineError" ELSE NoExc
  IN  LoaderResult(d1, e2, start, "sales", "Loaded sales records")

LoadProductsDataRun(d, c, f, k) ==
  LET start == <<LogRec("INFO", "Loading products data from", <<"data/products.json">>)>>
      \* open() and json.load()
      e0 == IF f.kind = "absent" THEN "FileNotFoundError"
            ELSE IF f.kind = "malformed" THEN "JSONDecodeError"
            ELSE NoExc
      \* conn.register of the DataFrame; json_normalize([]) has no columns
      e1 == IF e0 # NoExc THEN e0
            ELSE IF c = "closed" THEN "ConnectionException"
            ELSE IF k = 1 THEN "EngineError"
            ELSE IF f.rows = <<>> THEN "InvalidInputException"
            ELSE NoExc
      e2 == IF e1 # NoExc THEN e1
            ELSE IF k = 2 THEN "EngineError"
            ELSE InsertExc(d, "products", f, "product_id")
      d1 == IF e2 = NoExc THEN InsertRows(d, "products", f) ELSE d
      e3 == IF e2 # NoExc THEN e2 ELSE IF k = 3 THEN "EngineError" ELSE NoExc
  IN  LoaderResult(d1, e3, start, "products", "Loaded product records")

LoadRegionsDataRun(d, c, f, k) ==
  LET start == <<LogRec("INFO", "Loading regions data from", <<"data/regions.parquet">>)>>
      e1 == IF c = "closed" THEN "ConnectionException"
            ELSE IF k = 1 THEN "EngineError"
            ELSE InsertExc(d, "regions", f, "region_id")
      d1 == IF e1 = NoExc THEN InsertRows(d, "regions", f) ELSE d
      e2 == IF e1 # NoExc THEN e1 ELSE IF k = 2 THEN "EngineError" ELSE NoExc
  IN  LoaderResult(d1, e2, start, "regions", "Loaded region records")

\* ---------------------------------------------------- create_derived_tables
\* mutant: grouped by the whole sale_date instead of its year and month
MonthlySalesByDate(sales) ==
  LET Key(r) == <<r.sale_date, r.region>>
      Group(key) == { r \in sales : Key(r) = key }
  IN  { [year |-> Year(key[1]), month |-> Month(key[1]), region |-> key[2],
         transaction_count |-> Cardinality(Group(key)),
         total_revenue |-> SumAmount(Group(key)),
         avg_transaction_value |-> AvgAmount(Group(key)),
         total_quantity |-> SumQuantity(Group(key))] : key \in { Key(r) : r \in sales } }

MonthlySales(sales) ==
  LET Key(r) == <<Year(r.sale_date), Month(r.sale_date), r.region>>
      Group(key) == { r \in sales : Key(r) = key }
  IN  { [year |-> key[1], month |-> key[2], region |-> key[3],
         transaction_count |-> Cardinality(Group(key)),
         total_revenue |-> SumAmount(Group(key)),
         avg_transaction_value |-> AvgAmount(Group(key)),
         total_quantity |-> SumQuantity(Group(key))] : key \in { Key(r) : r \in sales } }

\* what the engine gives for x / 0: NULL, or the IEEE 754 value (engines
\* with ieee_floating_point_ops); it raises in neither case
ZeroDivisionResults == {"NULL", "IEEE"}

\* x / 0 as a value: NULL, or Infinity, -Infinity, NaN written n/0
DivideByZero(x, z) ==
  IF z = "NULL" THEN Null
  ELSE V([num |-> IF x > 0 THEN 1 ELSE IF x < 0 THEN 0 - 1 ELSE 0, den |-> 0])

\* mutant: the division guarded by NULLIF(p.cost, 0)
MarginPercentGuarded(rows, cost, z) ==
  IF rows = {} THEN [kind |-> "null", value |-> Null]
  ELSE IF cost = 0 THEN [kind |-> "null", value |-> Null]
  ELSE LET n == Cardinality(rows)
           total == SumF(rows, [r \in rows |-> r.unit_price])
       IN  [kind |-> "value", value |-> V(Frac((total - n * cost) * 100, n * cost))]

\* (AVG(s.unit_price) - p.cost) / p.cost * 100; z is the engine's x / 0
MarginPercent(rows, cost, z) ==
  IF rows = {} THEN [kind |-> "null", value |-> Null]
  ELSE IF cost = 0
    THEN [kind |-> "division_by_zero",
          value |-> DivideByZero(SumF(rows, [r \in rows |-> r.unit_price]), z)]
  ELSE LET n == Cardinality(rows)
           total == SumF(rows, [r \in rows |-> r.unit_price])
       IN  [kind |-> "value", value |-> V(Frac((total - n * cost) * 100, n * cost))]

\* mutant: products joined to sales with an inner join
ProductPerformanceInnerJoin(products, sales, z) ==
  LET Sold(p) == { r \in sales : ~IsNull(r.product_id) /\ r.product_id = p.product_id }
  IN  { [product_id |-> p.product_id, name |-> p.name, category |-> p.category,
         brand |-> p.brand,
         transaction_count |-> Cardinality(Sold(p)),
         total_revenue |-> SumAmount(Sold(p)),
         total_quantity_sold |-> SumQuantity(Sold(p)),
         avg_selling_price |-> AvgUnitPrice(Sold(p)),
         cost |-> p.cost,
         margin_percent |-> MarginPercent(Sold(p), p.cost, z)] : p \in { q \in products : Sold(q) # {} } }

ProductPerformance(products, sales, z) ==
  LET Sold(p) == { r \in sales : ~IsNull(r.product_id) /\ r.product_id = p.product_id }
  IN  { [product_id |-> p.product_id, name |-> p.name, category |-> p.category,
         brand |-> p.brand,
         transaction_count |-> Cardinality(Sold(p)),
         total_revenue |-> SumAmount(Sold(p)),
         total_quantity_sold |-> SumQuantity(Sold(p)),
         avg_selling_price |-> AvgUnitPrice(Sold(p)),
         cost |-> p.cost,
         margin_percent |-> MarginPercent(Sold(p), p.cost, z)] : p \in products }

\* mutant: the derived rows are added to the rows an earlier call left
CreateDerivedTablesRunMerging(d, c, k, z) ==
  LET start == <<LogRec("INFO", "Creating derived tables...", <<>>)>>
      e1 == IF c = "closed" THEN "ConnectionException"
            ELSE IF k = 1 THEN "EngineError"
            ELSE IF ~d.sales.exists THEN "CatalogException"
            ELSE NoExc
      d1 == IF e1 = NoExc
              THEN [d EXCEPT !.monthly_sales =
                               Table(Columns.monthly_sales,
                                     d.monthly_sales.rows \cup MonthlySales(d.sales.rows))]
              ELSE d
      e2 == IF e1 # NoExc THEN e1
            ELSE IF k = 2 THEN "EngineError"
            ELSE IF ~d.products.exists THEN "CatalogException"
            ELSE NoExc
      d2 == IF e2 = NoExc
              THEN [d1 EXCEPT !.product_performance =
                                 Table(Columns.product_performance,
                                       d.product_performance.rows \cup
                                         ProductPerformance(d.products.rows, d.sales.rows, z))]
              ELSE d1
  IN  IF e2 # NoExc THEN Result(d2, e2, start, <<>>, <<>>)
      ELSE Result(d2, NoExc,
                  start \o <<LogRec("INFO", "Derived tables created successfully", <<>>)>>,
                  <<>>, <<>>)

CreateDerivedTablesRun(d, c, k, z) ==
  LET start == <<LogRec("INFO", "Creating derived tables...", <<>>)>>
      e1 == IF c = "closed" THEN "ConnectionException"
            ELSE IF k = 1 THEN "EngineError"
            ELSE IF ~d.sales.exists THEN "CatalogException"
            ELSE NoExc
      d1 == IF e1 = NoExc
              THEN [d EXCEPT !.monthly_sales = Table(Columns.monthly_sales, MonthlySales(d.sales.rows))]
              ELSE d
      e2 == IF e1 # NoExc THEN e1
            ELSE IF k = 2 THEN "EngineError"
            ELSE IF ~d.products.exists THEN "CatalogException"
            ELSE NoExc
      d2 == IF e2 = NoExc
              THEN [d1 EXCEPT !.product_performance =
                                 Table(Columns.product_performance,
                                       ProductPerformance(d.products.rows, d.sales.rows, z))]
              ELSE d1
  IN  IF e2 # NoExc THEN Result(d2, e2, start, <<>>, <<>>)
      ELSE Result(d2, NoExc,
                  start \o <<LogRec("INFO", "Derived tables created successfully", <<>>)>>,
                  <<>>, <<>>)

\* ---------------------------------------------------- validate_data_quality
Check(table, column, kind) == [table |-> table, column |-> column, kind |-> kind]

\* the five null checks, then negative amounts, then future dates
Checklist ==
  << Check("sales", "product_id", "null values"),
     Check("sales", "customer_id", "null values"),
     Check("sales", "total_amount", "null values"),
     Check("products", "product_id", "null values"),
     Check("products", "name", "null values"),
     Check("sales", "total_amount", "negative values"),
     Check("sales", "sale_date", "future dates") >>

\* SELECT COUNT(*) FROM table WHERE <condition of the check>
CheckCount(d, t, chk) ==
  LET rows == d[chk.table].rows
  IN  IF chk.kind = "null values"
        THEN Cardinality({ r \in rows : IsNull(r[chk.column]) })
      ELSE IF chk.kind = "negative values"
        THEN Cardinality({ r \in rows : ~IsNull(r.total_amount) /\ r.total_amount[1] < 0 })
      ELSE Cardinality({ r \in rows : r.sale_date > t })

Issue(chk, n) == [table |-> chk.table, column |-> chk.column, kind |-> chk.kind, count |-> n]

\* mutant: only the five null checks are run
RECURSIVE RunChecksNullsOnly(_, _, _, _)
RunChecksNullsOnly(d, t, i, issues) ==
  IF i > 5 THEN issues
  ELSE LET n == CheckCount(d, t, Checklist[i])
       IN  RunChecksNullsOnly(d, t, i + 1,
                              IF n > 0 THEN Append(issues, Issue(Checklist[i], n)) ELSE issues)

\* mutant: the checklist stops at the first check that finds something
RECURSIVE RunChecksStopAtFirst(_, _, _, _)
RunChecksStopAtFirst(d, t, i, issues) ==
  IF i > Len(Checklist) \/ issues # <<>> THEN issues
  ELSE LET n == CheckCount(d, t, Checklist[i])
       IN  RunChecksStopAtFirst(d, t, i + 1,
                                IF n > 0 THEN Append(issues, Issue(Checklist[i], n)) ELSE issues)

RECURSIVE RunChecks(_, _, _, _)
RunChecks(d, t, i, issues) ==
  IF i > Len(Checklist) THEN issues
  ELSE LET n == CheckCount(d, t, Checklist[i])
       IN  RunChecks(d, t, i + 1,
                     IF n > 0 THEN Append(issues, Issue(Checklist[i], n)) ELSE issues)

\* the first statement of a sequence of queries that names a missing table
\* (Len + 1 when there is none)
FirstMissing(d, tables) ==
  LET bad == { i \in 1..Len(tables) : ~d[tables[i]].exists }
  IN  IF bad = {} THEN Len(tables) + 1 ELSE CHOOSE i \in bad : \A j \in bad : i <= j

QueryExc(d, c, k, tables) ==
  IF c = "closed" THEN "ConnectionException"
  ELSE IF k > 0 /\ k < FirstMissing(d, tables) THEN "EngineError"
  ELSE IF FirstMissing(d, tables) <= Len(tables) THEN "CatalogException"
  ELSE NoExc

\* mutant: a validate_data_quality that raises when a check finds something
ValidateDataQualityRunFatal(d, c, t, k) ==
  LET start == <<LogRec("INFO", "Running data quality checks...", <<>>)>>
      e == QueryExc(d, c, k, [i \in 1..Len(Checklist) |-> Checklist[i].table])
      issues == RunChecks(d, t, 1, <<>>)
  IN  IF e # NoExc THEN Result(d, e, start, <<>>, <<>>)
      ELSE IF issues # <<>>
        THEN Result(d, "DataQualityError",
                    start \o <<LogRec("WARNING", "Data quality issues found", issues)>>,
                    <<>>, <<>>)
      ELSE Result(d, NoExc, start \o <<LogRec("INFO", "All data quality checks passed", <<>>)>>,
                  issues, <<>>)

ValidateDataQualityRun(d, c, t, k) ==
  LET start == <<LogRec("INFO", "Running data quality checks...", <<>>)>>
      e == QueryExc(d, c, k, [i \in 1..Len(Checklist) |-> Checklist[i].table])
      issues == RunChecks(d, t, 1, <<>>)
  IN  IF e # NoExc THEN Result(d, e, start, <<>>, <<>>)
      ELSE IF issues # <<>>
        THEN Result(d, NoExc, start \o <<LogRec("WARNING", "Data quality issues found", issues)>>,
                    issues, <<>>)
      ELSE Result(d, NoExc, start \o <<LogRec("INFO", "All data quality checks passed", <<>>)>>,
                  issues, <<>>)

\* --------------------------------------------------------- get_data_summary
Pad2(n) == IF n < 10 THEN "0" \o ToString(n) ELSE ToString(n)

\* str() of a fetched DATE, or of None
PyStr(x) ==
  IF IsNull(x) THEN "None"
  ELSE ToString(Year(x[1])) \o "-" \o Pad2(Month(x[1])) \o "-" \o Pad2(x[1] % 100)

Summary(d) ==
  [sales |-> Cardinality(d.sales.rows),
   products |-> Cardinality(d.products.rows),
   regions |-> Cardinality(d.regions.rows),
   sales_date_range |-> PyStr(MinDate(d.sales.rows)) \o " to " \o PyStr(MaxDate(d.sales.rows)),
   total_revenue |-> SumAmount(d.sales.rows)]

\* mutant: a summary that first deletes the sales without a total_amount
GetDataSummaryRunDeleting(d, c, k) ==
  LET e == QueryExc(d, c, k, <<"sales", "products", "regions", "sales", "sales">>)
      d1 == [d EXCEPT !.sales.rows = { r \in @ : ~IsNull(r.total_amount) }]
  IN  IF e # NoExc THEN Result(d, e, <<>>, <<>>, <<>>)
      ELSE Result(d1, NoExc, <<>>, <<>>, V(Summary(d1)))

GetDataSummaryRun(d, c, k) ==
  LET e == QueryExc(d, c, k, <<"sales", "products", "regions", "sales", "sales">>)
  IN  IF e # NoExc THEN Result(d, e, <<>>, <<>>, <<>>)
      ELSE Result(d, NoExc, <<>>, <<>>, V(Summary(d)))

\* ------------------------------------------------------------- run_pipeline
Methods ==
  { "setup_database", "load_sales_data", "load_products_data", "load_regions_data",
    "create_derived_tables", "validate_data_quality", "get_data_summary" }

\* mutant: run_pipeline without its load_products_data() statement
NextStageWithoutProducts(st) ==
  CASE st = "setup_database" -> "load_sales_data"
    [] st = "load_sales_data" -> "regions_check"
    [] st = "load_products_data" -> "regions_check"
    [] st = "load_regions_data" -> "create_derived_tables"
    [] st = "create_derived_tables" -> "validate_data_quality"
    [] st = "validate_data_quality" -> "get_data_summary"
    [] st = "get_data_summary" -> "idle"

\* where run_pipeline goes after a method returned
NextStage(st) ==
  CASE st = "setup_database" -> "load_sales_data"
    [] st = "load_sales_data" -> "load_products_data"
    [] st = "load_products_data" -> "regions_check"
    [] st = "load_regions_data" -> "create_derived_tables"
    [] st = "create_derived_tables" -> "validate_data_quality"
    [] st = "validate_data_quality" -> "get_data_summary"
    [] st = "get_data_summary" -> "idle"

FaultPoints(n) == {0} \cup (IF faultsLeft > 0 THEN 1..n ELSE {})

\* mutant: an except clause that logs and returns None instead of re-raising
RaisedSwallowed(r) ==
  /\ pc' = "idle"
  /\ outcome' = Outcome("returned", NoExc, <<>>, <<>>)
  /\ log' = log \o r.log \o
            (IF mode = "pipeline" THEN <<LogRec("ERROR", "Pipeline failed", <<r.exc>>)>> ELSE <<>>)

\* the except clause of run_pipeline: log and re-raise; a direct caller just
\* gets the exception
Raised(r) ==
  /\ pc' = "idle"
  /\ outcome' = Outcome("raised", r.exc, <<>>, <<>>)
  /\ log' = log \o r.log \o
            (IF mode = "pipeline" THEN <<LogRec("ERROR", "Pipeline failed", <<r.exc>>)>> ELSE <<>>)

\* a method returned: run_pipeline moves to its next statement (dropping the
\* value, except for the summary, which it logs and returns)
Returned(st, r) ==
  IF mode = "pipeline"
    THEN /\ pc' = NextStage(st)
         /\ IF st = "get_data_summary"
              THEN /\ outcome' = Outcome("returned", NoExc, <<>>, r.summary)
                   /\ log' = log \o r.log \o
                             <<LogRec("INFO", "Pipeline completed successfully. Summary", r.summary)>>
              ELSE /\ outcome' = outcome
                   /\ log' = log \o r.log
    ELSE /\ pc' = "idle"
         /\ outcome' = Outcome("returned", NoExc, r.issues, r.summary)
         /\ log' = log \o r.log

Step(st, r, k) ==
  /\ db' = r.db
  /\ trace' = Append(trace, st)
  /\ faultsLeft' = IF k > 0 THEN faultsLeft - 1 ELSE faultsLeft
  /\ IF r.exc # NoExc THEN Raised(r) ELSE Returned(st, r)
  /\ ret' = Outcome(IF r.exc # NoExc THEN "raised" ELSE "returned", r.exc, r.issues, r.summary)
  /\ UNCHANGED <<utilityVars, conn, files, today, mode, passed, calls, limit, engine>>

\* the file a loader reads: run_pipeline calls it on the default path, a direct
\* caller passes file_path
FileArg(name) == IF mode = "pipeline" THEN files[name] ELSE passed

SetupDatabase ==
  /\ pc = "setup_database"
  /\ \E k \in FaultPoints(3) : Step("setup_database", SetupDatabaseRun(db, conn, k), k)

LoadSalesData ==
  /\ pc = "load_sales_data"
  /\ \E k \in FaultPoints(2) :
       Step("load_sales_data", LoadSalesDataRun(db, conn, FileArg("sales"), k), k)

LoadProductsData ==
  /\ pc = "load_products_data"
  /\ \E k \in FaultPoints(3) :
       Step("load_products_data", LoadProductsDataRun(db, conn, FileArg("products"), k), k)

\* mutant: run_pipeline calling load_regions_data() without the exists() test
RegionsCheckAlwaysLoads ==
  /\ pc = "regions_check"
  /\ pc' = "load_regions_data"
  /\ UNCHANGED <<log, trace>>
  /\ UNCHANGED <<utilityVars, conn, db, files, today, mode, passed, outcome, calls, limit, engine, ret, faultsLeft>>

\* if regions_file.exists(): ... else: logger.warning(...)
RegionsCheck ==
  /\ pc = "regions_check"
  /\ IF files.regions.kind # "absent"
       THEN /\ pc' = "load_regions_data"
            /\ UNCHANGED <<log, trace>>
       ELSE /\ pc' = "create_derived_tables"
            /\ log' = Append(log, LogRec("WARNING", "regions.parquet not found, skipping regions data", <<>>))
            /\ trace' = Append(trace, "skip_regions")
  /\ UNCHANGED <<utilityVars, conn, db, files, today, mode, passed, outcome, calls, limit, engine, ret, faultsLeft>>

LoadRegionsData ==
  /\ pc = "load_regions_data"
  /\ \E k \in FaultPoints(2) :
       Step("load_regions_data", LoadRegionsDataRun(db, conn, FileArg("regions"), k), k)

CreateDerivedTables ==
  /\ pc = "create_derived_tables"
  /\ \E k \in FaultPoints(2) :
       Step("create_derived_tables", CreateDerivedTablesRun(db, conn, k, engine), k)

ValidateDataQuality ==
  /\ pc = "validate_data_quality"
  /\ \E k \in FaultPoints(Len(Checklist)) :
       Step("validate_data_quality", ValidateDataQualityRun(db, conn, today, k), k)

GetDataSummary ==
  /\ pc = "get_data_summary"
  /\ \E k \in FaultPoints(5) :
       Step("get_data_summary", GetDataSummaryRun(db, conn, k), k)

\* ------------------------------------------------------------- the callers
\* pipeline.run_pipeline()
RunPipeline ==
  /\ pc = "idle"
  /\ Len(calls) < limit
  /\ calls' = Append(calls, "run_pipeline")
  /\ mode' = "pipeline"
  /\ pc' = "setup_database"
  /\ passed' = AbsentFile
  /\ trace' = <<>>
  /\ log' = <<LogRec("INFO", "Starting ETL pipeline...", <<>>)>>
  /\ outcome' = NoOutcome
  /\ ret' = NoOutcome
  /\ UNCHANGED <<utilityVars, conn, db, files, today, limit, engine, faultsLeft>>

\* a caller invokes one public method of the pipeline object on its own
CallMethod ==
  /\ pc = "idle"
  /\ Len(calls) < limit
  /\ mode' = "direct"
  /\ \E m \in Methods :
       /\ pc' = m
       /\ calls' = Append(calls, m)
       /\ passed' \in CASE m = "load_sales_data" -> FewSalesFiles
                   [] m = "load_products_data" -> FewProductsFiles
                   [] m = "load_regions_data" -> FewRegionsFiles
                   [] OTHER -> {AbsentFile}
  /\ trace' = <<>>
  /\ log' = <<>>
  /\ outcome' = NoOutcome
  /\ ret' = NoOutcome
  /\ UNCHANGED <<utilityVars, conn, db, files, today, limit, engine, faultsLeft>>

\* pipeline.close()
Close ==
  /\ pc = "idle"
  /\ Len(calls) < limit
  /\ calls' = Append(calls, "close")
  /\ conn' = "closed"
  /\ UNCHANGED <<utilityVars, db, files, today, mode, pc, passed, trace, log, outcome, limit, engine, ret, faultsLeft>>

\* ------------------------------------- test_functions.py: Python values
\* a Python value: its type, and for a number its value in hundredths (nan:
\* the float is NaN); "absent" stands for a key the dict does not have
PyVal(type, v, nan) == [type |-> type, v |-> v, nan |-> nan]

Absent == PyVal("absent", 0, FALSE)
PyNone == PyVal("NoneType", 0, FALSE)
PyStr2 == PyVal("str", 0, FALSE)
PyInt(n) == PyVal("int", n * 100, FALSE)
PyFloat(hundredths) == PyVal("float", hundredths, FALSE)
PyTrue == PyVal("bool", 100, FALSE)
PyNaN == PyVal("float", 0, TRUE)
PyTypeError == PyVal("TypeError", 0, FALSE)

\* key in dict
Has(t, field) == t[field].type # "absent"

\* isinstance(x, (int, float)): bool is a subclass of int
IsNumber(x) == x.type \in {"int", "float", "bool"}

\* x <= 0 for a number: false for NaN
NotPositive(x) == ~x.nan /\ x.v <= 0

\* a * b, in ten-thousandths for numbers: a product of numbers, a str
\* repeated by an int, or a TypeError
PyMul(a, b) ==
  IF IsNumber(a) /\ IsNumber(b)
    THEN PyVal(IF a.type = "float" \/ b.type = "float" THEN "float" ELSE "int",
               a.v * b.v, a.nan \/ b.nan)
  ELSE IF \/ a.type = "str" /\ b.type \in {"int", "bool"}
          \/ b.type = "str" /\ a.type \in {"int", "bool"}
    THEN PyStr2
  ELSE PyTypeError

\* a - b for a in ten-thousandths and b in hundredths: numbers only
PySub(a, b) ==
  IF IsNumber(a) /\ IsNumber(b)
    THEN PyVal(IF a.type = "float" \/ b.type = "float" THEN "float" ELSE "int",
               a.v - b.v * 100, a.nan \/ b.nan)
  ELSE PyTypeError

\* ---------------------------------------------- validate_transaction_data
RequiredFields ==
  <<"transaction_id", "date", "product_id", "customer_id", "quantity", "unit_price",
    "total_amount">>

\* the records handed to the validator
IdValues == { Absent, PyStr2 }
QuantityValues == { Absent, PyInt(2), PyInt(0), PyInt(0 - 1), PyStr2, PyNone, PyTrue, PyNaN }
UnitPriceValues == { Absent, PyFloat(2999), PyFloat(0), PyStr2, PyNone }
TotalAmountValues == { Absent, PyFloat(5998), PyFloat(1000), PyStr2, PyNone }

Transactions ==
  [transaction_id : IdValues, date : IdValues, product_id : IdValues, customer_id : IdValues,
   quantity : QuantityValues, unit_price : UnitPriceValues, total_amount : TotalAmountValues]

\* {}
NoTransaction ==
  [transaction_id |-> Absent, date |-> Absent, product_id |-> Absent, customer_id |-> Absent,
   quantity |-> Absent, unit_price |-> Absent, total_amount |-> Absent]

\* validation_result, or the exception that ends the call
Validation(kind, exc, valid, errors, warnings) ==
  [kind |-> kind, exc |-> exc, valid |-> valid, errors |-> errors, warnings |-> warnings]

NotValidated == Validation("none", NoExc, TRUE, <<>>, <<>>)

\* mutant: the error is appended and valid is left as it was
AddErrorKeepingValid(r, text) == [r EXCEPT !.errors = Append(@, text)]

\* errors.append(...); valid = False
AddError(r, text) == [r EXCEPT !.errors = Append(@, text), !.valid = FALSE]

\* for field in required_fields: if field not in transaction: ...
RECURSIVE CheckRequired(_, _, _)
CheckRequired(t, i, r) ==
  IF i > Len(RequiredFields) THEN r
  ELSE CheckRequired(t, i + 1,
                     IF Has(t, RequiredFields[i]) THEN r
                     ELSE AddError(r, "Missing required field: " \o RequiredFields[i]))

\* mutant: a total_amount that does not match is an error
ValidateTransactionDataRunEnforcing(t) ==
  LET r0 == Validation("returned", NoExc, TRUE, <<>>, <<>>)
      r1 == CheckRequired(t, 1, r0)
      r2 == IF Has(t, "quantity") /\ (~IsNumber(t.quantity) \/ NotPositive(t.quantity))
              THEN AddError(r1, "Quantity must be a positive number")
              ELSE r1
      r3 == IF Has(t, "unit_price") /\ (~IsNumber(t.unit_price) \/ NotPositive(t.unit_price))
              THEN AddError(r2, "Unit price must be a positive number")
              ELSE r2
      compared == Has(t, "quantity") /\ Has(t, "unit_price") /\ Has(t, "total_amount")
      expected_total == PyMul(t.quantity, t.unit_price)
      difference == IF expected_total = PyTypeError THEN PyTypeError
                    ELSE PySub(expected_total, t.total_amount)
  IN  IF ~compared THEN r3
      ELSE IF difference = PyTypeError THEN Validation("raised", "TypeError", TRUE, <<>>, <<>>)
      ELSE IF ~difference.nan /\ Abs(difference.v) > 100
        THEN AddError(r3, "Total amount mismatch")
      ELSE r3

\* the records are chosen off the boundary |expected - total| = 0.01, where
\* the rounding of the float subtraction decides the comparison
ValidateTransactionDataRun(t) ==
  LET r0 == Validation("returned", NoExc, TRUE, <<>>, <<>>)
      r1 == CheckRequired(t, 1, r0)
      r2 == IF Has(t, "quantity") /\ (~IsNumber(t.quantity) \/ NotPositive(t.quantity))
              THEN AddError(r1, "Quantity must be a positive number")
              ELSE r1
      r3 == IF Has(t, "unit_price") /\ (~IsNumber(t.unit_price) \/ NotPositive(t.unit_price))
              THEN AddError(r2, "Unit price must be a positive number")
              ELSE r2
      compared == Has(t, "quantity") /\ Has(t, "unit_price") /\ Has(t, "total_amount")
      expected_total == PyMul(t.quantity, t.unit_price)
      difference == IF expected_total = PyTypeError THEN PyTypeError
                    ELSE PySub(expected_total, t.total_amount)
  IN  IF ~compared THEN r3
      ELSE IF difference = PyTypeError THEN Validation("raised", "TypeError", TRUE, <<>>, <<>>)
      ELSE IF ~difference.nan /\ Abs(difference.v) > 100
        THEN [r3 EXCEPT !.warnings =
                Append(@, [text |-> "Total amount mismatch",
                           expected |-> expected_total, got |-> t.total_amount])]
      ELSE r3

\* ------------------------------------------------ calculate_profit_metrics
\* x < 0 for a number: false for NaN
Negative(x) == ~x.nan /\ x.v < 0

\* the value of an arithmetic expression: the exact number n / d with d > 0,
\* NaN, or (d = 0) the ZeroDivisionError that a division by zero raises
Ratio(n, d, nan) == [n |-> n, d |-> d, nan |-> nan]

NaNRatio == Ratio(0, 1, TRUE)
ZeroDivision == Ratio(0, 0, FALSE)

Reduced(n, d) == LET g == GCD(Abs(n), d) IN Ratio(n \div g, d \div g, FALSE)

\* the number a Python value holds
RatioOf(x) == IF x.nan THEN NaNRatio ELSE Reduced(x.v, 100)

\* a - b
RatioSub(a, b) ==
  IF a.nan \/ b.nan THEN NaNRatio ELSE Reduced(a.n * b.d - b.n * a.d, a.d * b.d)

\* a * b
RatioMul(a, b) ==
  IF a.nan \/ b.nan THEN NaNRatio ELSE Reduced(a.n * b.n, a.d * b.d)

\* a / b: a zero divisor raises, whatever the dividend
RatioDiv(a, b) ==
  IF ~b.nan /\ b.n = 0 THEN ZeroDivision
  ELSE IF a.nan \/ b.nan THEN NaNRatio
  ELSE IF b.n < 0 THEN Reduced((0 - a.n) * b.d, a.d * (0 - b.n))
  ELSE Reduced(a.n * b.d, a.d * b.n)

\* a rounded float, in hundredths
Rounded(v, nan) == [v |-> v, nan |-> nan]
NoNumber == Rounded(0, FALSE)

\* round(x, 2): the value with two decimals nearest to x. When x lies
\* halfway between two of them the rounding errors of the float operations
\* that produced x decide, so either neighbour can come out
Round2(x) ==
  IF x.nan THEN { Rounded(0, TRUE) }
  ELSE LET m == x.n * 100
           q == m \div x.d
           r == m - q * x.d
       IN  IF 2 * r < x.d THEN { Rounded(q, FALSE) }
           ELSE IF 2 * r > x.d THEN { Rounded(q + 1, FALSE) }
           ELSE { Rounded(q, FALSE), Rounded(q + 1, FALSE) }

\* the arguments of the calls
PriceValues ==
  { PyFloat(10000), PyFloat(2999), PyFloat(32), PyFloat(0), PyFloat(0 - 1000), PyInt(100), PyNaN }
CostValues ==
  { PyFloat(6000), PyFloat(1850), PyFloat(31), PyFloat(0), PyFloat(0 - 500), PyInt(60), PyNaN }
QuantityArguments == { PyInt(1), PyInt(10), PyInt(3), PyInt(0) }

Arguments == [price : PriceValues, cost : CostValues, quantity : QuantityArguments]
NoArguments == [price |-> PyNone, cost |-> PyNone, quantity |-> PyNone]

\* the returned dict, or the exception that ends the call
Metrics(kind, exc, profit_per_unit, margin_percentage, total_revenue, total_profit, cost_ratio) ==
  [kind |-> kind, exc |-> exc, profit_per_unit |-> profit_per_unit,
   margin_percentage |-> margin_percentage, total_revenue |-> total_revenue,
   total_profit |-> total_profit, cost_ratio |-> cost_ratio]

NotCalculated == Metrics("none", NoExc, NoNumber, NoNumber, NoNumber, NoNumber, NoNumber)
MetricsRaised(exc) == Metrics("raised", exc, NoNumber, NoNumber, NoNumber, NoNumber, NoNumber)

\* mutant: only a negative price is refused
CalculateProfitMetricsRunZeroPrice(a) ==
  IF Negative(a.price) \/ Negative(a.cost) THEN { MetricsRaised("ValueError") }
  ELSE LET price == RatioOf(a.price)
           cost == RatioOf(a.cost)
           quantity == RatioOf(a.quantity)
           hundred == Ratio(100, 1, FALSE)
           profit_per_unit == RatioSub(price, cost)
           margin == RatioDiv(profit_per_unit, price)
           margin_percentage == RatioMul(margin, hundred)
           total_revenue == RatioMul(price, quantity)
           total_profit == RatioMul(profit_per_unit, quantity)
           cost_share == RatioDiv(cost, price)
       IN  IF margin = ZeroDivision \/ cost_share = ZeroDivision
             THEN { MetricsRaised("ZeroDivisionError") }
           ELSE { Metrics("returned", NoExc, p, m, r, t, c) :
                    p \in Round2(profit_per_unit), m \in Round2(margin_percentage),
                    r \in Round2(total_revenue), t \in Round2(total_profit),
                    c \in Round2(RatioMul(cost_share, hundred)) }

\* mutant: the margin is taken on the cost
CalculateProfitMetricsRunMarkup(a) ==
  IF NotPositive(a.price) \/ Negative(a.cost) THEN { MetricsRaised("ValueError") }
  ELSE LET price == RatioOf(a.price)
           cost == RatioOf(a.cost)
           quantity == RatioOf(a.quantity)
           hundred == Ratio(100, 1, FALSE)
           profit_per_unit == RatioSub(price, cost)
           margin == RatioDiv(profit_per_unit, cost)
           margin_percentage == RatioMul(margin, hundred)
           total_revenue == RatioMul(price, quantity)
           total_profit == RatioMul(profit_per_unit, quantity)
           cost_share == RatioDiv(cost, price)
       IN  IF margin = ZeroDivision \/ cost_share = ZeroDivision
             THEN { MetricsRaised("ZeroDivisionError") }
           ELSE { Metrics("returned", NoExc, p, m, r, t, c) :
                    p \in Round2(profit_per_unit), m \in Round2(margin_percentage),
                    r \in Round2(total_revenue), t \in Round2(total_profit),
                    c \in Round2(RatioMul(cost_share, hundred)) }

\* calculate_profit_metrics(price, cost, quantity): what the call can give
CalculateProfitMetricsRun(a) ==
  IF NotPositive(a.price) \/ Negative(a.cost) THEN { MetricsRaised("ValueError") }
  ELSE LET price == RatioOf(a.price)
           cost == RatioOf(a.cost)
           quantity == RatioOf(a.quantity)
           hundred == Ratio(100, 1, FALSE)
           profit_per_unit == RatioSub(price, cost)
           margin == RatioDiv(profit_per_unit, price)
           margin_percentage == RatioMul(margin, hundred)
           total_revenue == RatioMul(price, quantity)
           total_profit == RatioMul(profit_per_unit, quantity)
           cost_share == RatioDiv(cost, price)
       IN  IF margin = ZeroDivision \/ cost_share = ZeroDivision
             THEN { MetricsRaised("ZeroDivisionError") }
           ELSE { Metrics("returned", NoExc, p, m, r, t, c) :
                    p \in Round2(profit_per_unit), m \in Round2(margin_percentage),
                    r \in Round2(total_revenue), t \in Round2(total_profit),
                    c \in Round2(RatioMul(cost_share, hundred)) }

NoMetricsCall == arguments = NoArguments /\ metrics = NotCalculated

\* ---------------- analyze_sales_data_quality and benchmark_data_loading
\* a file that exists and cannot be opened
UnreadableFile == File("unreadable", <<>>)

\* the files at the path handed to the two functions
CsvFiles == SalesFiles \cup { UnreadableFile }

\* pd.read_csv(csv_file): the exception it raises, NoExc when it returns
PandasReadCsv(f) ==
  IF f.kind = "absent" THEN "FileNotFoundError"
  ELSE IF f.kind = "unreadable" THEN "PermissionError"
  ELSE IF f.kind = "malformed" THEN "ParserError"
  ELSE NoExc

\* conn.execute("SELECT * FROM read_csv_auto(...)"): the same, for DuckDB
DuckdbReadCsv(f) ==
  IF f.kind \in {"absent", "unreadable"} THEN "IOException"
  ELSE IF f.kind = "malformed" THEN "InvalidInputException"
  ELSE NoExc

\* the mapping a function returns (its keys, the text under 'error' and the
\* row count it reports), or the exception that ends the call
Mapping(kind, exc, keys, error, rows) ==
  [kind |-> kind, exc |-> exc, keys |-> keys, error |-> error, rows |-> rows]

NoMapping == Mapping("none", NoExc, {}, NoExc, 0)

\* mutant: except FileNotFoundError
AnalyzeSalesDataQualityRunNarrow(f) ==
  LET e == PandasReadCsv(f)
  IN  IF e = "FileNotFoundError" THEN Mapping("returned", NoExc, {"error"}, e, 0)
      ELSE IF e # NoExc THEN Mapping("raised", e, {}, NoExc, 0)
      ELSE Mapping("returned", NoExc, {"file_info", "data_quality", "business_metrics"},
                   NoExc, Len(f.rows))

\* try: df = pd.read_csv(csv_file) ... return quality_report
\* except Exception as e: return {'error': str(e)}
AnalyzeSalesDataQualityRun(f) ==
  LET e == PandasReadCsv(f)
  IN  IF e # NoExc THEN Mapping("returned", NoExc, {"error"}, e, 0)
      ELSE Mapping("returned", NoExc, {"file_info", "data_quality", "business_metrics"},
                   NoExc, Len(f.rows))

\* results = {}; try: ... except Exception as e: results['error'] = str(e);
\* return results
BenchmarkDataLoadingRun(f) ==
  LET e1 == PandasReadCsv(f)
      keys1 == IF e1 = NoExc THEN {"pandas_load_time", "pandas_rows"} ELSE {}
      e2 == IF e1 # NoExc THEN e1 ELSE DuckdbReadCsv(f)
      keys2 == IF e2 = NoExc
                 THEN {"duckdb_load_time", "duckdb_rows", "speedup", "winner"}
                 ELSE {"error"}
  IN  Mapping("returned", NoExc, keys1 \cup keys2, e2, IF e1 = NoExc THEN Len(f.rows) ELSE 0)

NoCsvCall == csv_file = AbsentFile /\ quality_report = NoMapping /\ results = NoMapping

\* no utility function is called in a session of the pipeline
NoUtilityCall ==
  /\ transaction = NoTransaction /\ validation = NotValidated
  /\ NoMetricsCall
  /\ NoCsvCall

\* the state after SalesDataPipeline(), before any call
Constructed ==
  /\ conn = "open"
  /\ db = EmptyDatabase
  /\ today \in Todays
  /\ mode = "none"
  /\ pc = "idle"
  /\ passed = AbsentFile
  /\ trace = <<>>
  /\ log = <<>>
  /\ outcome = NoOutcome
  /\ calls = <<>>
  /\ ret = NoOutcome

\* a session of up to MaxCalls calls on one pipeline object, on an engine
\* with its default arithmetic
Init ==
  /\ Constructed
  /\ NoUtilityCall
  /\ files \in FewFileSets
  /\ limit = MaxCalls
  /\ faultsLeft = MaxFaults
  /\ engine = "IEEE"

\* a single call, over every content of the data directory
InitRun ==
  /\ Constructed
  /\ NoUtilityCall
  /\ files \in FileSets
  /\ limit = 1
  /\ faultsLeft = MaxFaults
  /\ engine \in ZeroDivisionResults

\* a longer session on an engine that does not fail, over one data directory
InitRerun ==
  /\ Constructed
  /\ NoUtilityCall
  /\ files = [sales |-> File("ok", <<GoodSale1, GoodSale2>>),
              products |-> File("ok", <<Product1, Product2>>),
              regions |-> AbsentFile]
  /\ limit = MaxCalls + 1
  /\ faultsLeft = 0
  /\ engine \in ZeroDivisionResults

Next ==
  \/ RunPipeline
  \/ CallMethod
  \/ Close
  \/ SetupDatabase
  \/ LoadSalesData
  \/ LoadProductsData
  \/ RegionsCheck
  \/ LoadRegionsData
  \/ CreateDerivedTables
  \/ ValidateDataQuality
  \/ GetDataSummary

Spec == Init /\ [][Next]_vars

SpecRun == InitRun /\ [][Next]_vars

SpecRerun == InitRerun /\ [][Next]_vars

\* --------------------------------------------------------------------- main
\* pipeline = SalesDataPipeline(); try: summary = pipeline.run_pipeline()
MainRunPipeline ==
  /\ calls = <<>>
  /\ RunPipeline

\* mutant: pipeline.close() as the last statement of the try body
MainFinallyOnSuccess ==
  /\ calls = <<"run_pipeline">>
  /\ outcome.kind = "returned"
  /\ Close

\* the summary is printed if run_pipeline returned it; finally: pipeline.close();
\* an exception of run_pipeline then goes on to the caller of main
MainFinally ==
  /\ calls = <<"run_pipeline">>
  /\ Close

\* main makes two calls on the pipeline object it constructs
InitMain ==
  /\ Constructed
  /\ NoUtilityCall
  /\ files \in FewFileSets
  /\ limit = 2
  /\ faultsLeft = MaxFaults
  /\ engine \in ZeroDivisionResults

NextMain ==
  \/ MainRunPipeline
  \/ MainFinally
  \/ SetupDatabase
  \/ LoadSalesData
  \/ LoadProductsData
  \/ RegionsCheck
  \/ LoadRegionsData
  \/ CreateDerivedTables
  \/ ValidateDataQuality
  \/ GetDataSummary

\* main is sequential code: a statement that control has reached is executed
SpecMain == InitMain /\ [][NextMain]_vars /\ WF_vars(NextMain)

\* ------------------------------- test_functions.py: the validator's call
\* result = validate_transaction_data(transaction)
ValidateTransactionData ==
  /\ validation = NotValidated
  /\ validation' = ValidateTransactionDataRun(transaction)
  /\ UNCHANGED <<pipelineVars, transaction, arguments, metrics, csv_file, quality_report, results>>

\* a record is built and handed to the validator; no pipeline object is used
InitValidate ==
  /\ Constructed
  /\ files = [sales |-> AbsentFile, products |-> AbsentFile, regions |-> AbsentFile]
  /\ limit = 0
  /\ faultsLeft = 0
  /\ engine = "IEEE"
  /\ transaction \in Transactions
  /\ validation = NotValidated
  /\ NoMetricsCall
  /\ NoCsvCall

NextValidate == ValidateTransactionData

SpecValidate == InitValidate /\ [][NextValidate]_vars

\* ------------------------- test_functions.py: the profit metrics' call
\* result = calculate_profit_metrics(price, cost, quantity)
CalculateProfitMetrics ==
  /\ metrics = NotCalculated
  /\ metrics' \in CalculateProfitMetricsRun(arguments)
  /\ UNCHANGED <<pipelineVars, transaction, validation, arguments, csv_file, quality_report, results>>

\* the arguments are chosen and the function is called; no pipeline object
\* is used
InitProfit ==
  /\ Constructed
  /\ files = [sales |-> AbsentFile, products |-> AbsentFile, regions |-> AbsentFile]
  /\ limit = 0
  /\ faultsLeft = 0
  /\ engine = "IEEE"
  /\ transaction = NoTransaction
  /\ validation = NotValidated
  /\ arguments \in Arguments
  /\ metrics = NotCalculated
  /\ NoCsvCall

NextProfit == CalculateProfitMetrics

SpecProfit == InitProfit /\ [][NextProfit]_vars

\* ----------------- test_functions.py: the calls of the two CSV functions
\* report = analyze_sales_data_quality(csv_file)
AnalyzeSalesDataQuality ==
  /\ quality_report = NoMapping
  /\ quality_report' = AnalyzeSalesDataQualityRun(csv_file)
  /\ UNCHANGED <<pipelineVars, transaction, validation, arguments, metrics, csv_file, results>>

\* result = benchmark_data_loading(csv_file)
BenchmarkDataLoading ==
  /\ results = NoMapping
  /\ results' = BenchmarkDataLoadingRun(csv_file)
  /\ UNCHANGED <<pipelineVars, transaction, validation, arguments, metrics, csv_file, quality_report>>

\* each function is called once on the same path, in either order; no
\* pipeline object is used
InitCsv ==
  /\ Constructed
  /\ files = [sales |-> AbsentFile, products |-> AbsentFile, regions |-> AbsentFile]
  /\ limit = 0
  /\ faultsLeft = 0
  /\ engine = "IEEE"
  /\ transaction = NoTransaction
  /\ validation = NotValidated
  /\ NoMetricsCall
  /\ csv_file \in CsvFiles
  /\ quality_report = NoMapping
  /\ results = NoMapping

NextCsv ==
  \/ AnalyzeSalesDataQuality
  \/ BenchmarkDataLoading

SpecCsv == InitCsv /\ [][NextCsv]_vars

\* ----------------------------------- one record, validated and on file
\* complete records of numbers, as a line of data/sales.csv can hold them
RecordsOnFile ==
  { t \in Transactions :
      /\ \A i \in 1..Len(RequiredFields) : Has(t, RequiredFields[i])
      /\ t.quantity.type = "int"
      /\ t.unit_price.type = "float" /\ ~t.unit_price.nan
      /\ t.total_amount.type = "float" /\ ~t.total_amount.nan }

\* the row of sales that read_csv_auto makes of the record
SaleOf(t) ==
  [Sale("T1", V("P1"), V("C1"), 20240115, V(t.total_amount.v), "North")
     EXCEPT !.quantity = t.quantity.v \div 100, !.unit_price = t.unit_price.v]

\* a record is handed to the validator, and the pipeline runs over a
\* data/sales.csv that holds the same record
InitRecord ==
  /\ Constructed
  /\ transaction \in RecordsOnFile
  /\ validation = NotValidated
  /\ NoMetricsCall
  /\ NoCsvCall
  /\ files = [sales |-> File("ok", <<SaleOf(transaction)>>),
              products |-> File("ok", <<Product1>>),
              regions |-> AbsentFile]
  /\ limit = 1
  /\ faultsLeft = 0
  /\ engine \in ZeroDivisionResults

NextRecord ==
  \/ ValidateTransactionData
  \/ Next

SpecRecord == InitRecord /\ [][NextRecord]_vars

\* ======================================================================
\* Properties
\* ======================================================================
IsPrefix(s, t) == Len(s) <= Len(t) /\ \A i \in 1..Len(s) : s[i] = t[i]

Last(s) == s[Len(s)]

Loaders == { "load_sales_data", "load_products_data", "load_regions_data" }

OrderLoaded ==
  << "setup_database", "load_sales_data", "load_products_data", "load_regions_data",
     "create_derived_tables", "validate_data_quality", "get_data_summary" >>

OrderSkipped ==
  << "setup_database", "load_sales_data", "load_products_data", "skip_regions",
     "create_derived_tables", "validate_data_quality", "get_data_summary" >>

\* what the method at st does in the current state when the engine fails at
\* statement k (0: nowhere)
RunOf(st, k) ==
  CASE st = "setup_database" -> SetupDatabaseRun(db, conn, k)
    [] st = "load_sales_data" -> LoadSalesDataRun(db, conn, FileArg("sales"), k)
    [] st = "load_products_data" -> LoadProductsDataRun(db, conn, FileArg("products"), k)
    [] st = "load_regions_data" -> LoadRegionsDataRun(db, conn, FileArg("regions"), k)
    [] st = "create_derived_tables" -> CreateDerivedTablesRun(db, conn, k, engine)
    [] st = "validate_data_quality" -> ValidateDataQualityRun(db, conn, today, k)
    [] st = "get_data_summary" -> GetDataSummaryRun(db, conn, k)

\* the step is a method that raises: the engine failed in it, or it fails by itself
MethodRaises == pc \in Methods /\ (faultsLeft' < faultsLeft \/ RunOf(pc, 0).exc # NoExc)

\* C1: in a run of run_pipeline the stages run in the order setup_database,
\* load_sales_data, load_products_data, load_regions_data or the regions skip,
\* create_derived_tables, validate_data_quality, get_data_summary: what has
\* run so far, and the stage about to start, is always a prefix of one of the
\* two orders, and a run that returns ran exactly one of them.
C1_StageOrder ==
  mode = "pipeline" =>
    /\ \E o \in {OrderLoaded, OrderSkipped} :
         /\ IsPrefix(trace, o)
         /\ pc \in Methods => IsPrefix(Append(trace, pc), o)
    /\ pc = "regions_check" => trace = SubSeq(OrderLoaded, 1, 3)
    /\ outcome.kind = "returned" => trace \in {OrderLoaded, OrderSkipped}

C1_Witness ==
  mode = "pipeline" /\ pc = "idle" /\ outcome.kind = "returned" /\ trace = OrderLoaded

\* C2: when a stage called by run_pipeline raises, the run ends there: the
\* exception is what the caller of run_pipeline gets, with no summary; the
\* failed stage ran once; no table that existed is gone and no row of a base
\* table that an earlier stage inserted is removed; and nothing more happens
\* to the database until the caller makes another call.
C2_AbortOnException ==
  [][ /\ (mode = "pipeline" /\ MethodRaises) =>
            /\ pc' = "idle"
            /\ outcome'.kind = "raised" /\ outcome'.exc # NoExc /\ outcome'.summary = <<>>
            /\ trace' = Append(trace, pc)
            /\ pc \notin Range(trace)
            /\ \A t \in DOMAIN db : db[t].exists => db'[t].exists
            /\ pc # "setup_database" =>
                 \A t \in BaseTables : db[t].rows \subseteq db'[t].rows
      /\ (mode = "pipeline" /\ pc = "idle" /\ outcome.kind = "raised") =>
            \/ Len(calls') > Len(calls)
            \/ db' = db /\ trace' = trace /\ outcome' = outcome
    ]_vars

C2_Witness ==
  /\ mode = "pipeline" /\ pc = "idle" /\ outcome.kind = "raised"
  /\ Last(trace) = "load_products_data"
  /\ db.sales.rows # {}

SkipWarning(rec) ==
  rec.level = "WARNING" /\ rec.text = "regions.parquet not found, skipping regions data"

\* C3: with data/regions.parquet absent, run_pipeline never calls
\* load_regions_data; its existence test logs the skip warning, raises nothing
\* and goes on to create_derived_tables; the run then returns the summary
\* unless the engine fails in a later stage.
C3_RegionsSkip ==
  /\ [](mode = "pipeline" /\ files.regions.kind = "absent" =>
          /\ pc # "load_regions_data"
          /\ "load_regions_data" \notin Range(trace)
          /\ outcome.kind = "returned" =>
               /\ trace = OrderSkipped
               /\ outcome.summary # <<>>
               /\ \E i \in 1..Len(log) : SkipWarning(log[i])
          /\ (outcome.kind = "raised" /\ "skip_regions" \in Range(trace)) =>
               faultsLeft < MaxFaults)
  /\ [][ (mode = "pipeline" /\ pc = "regions_check" /\ files.regions.kind = "absent") =>
            /\ pc' = "create_derived_tables"
            /\ outcome' = outcome
            /\ db' = db
            /\ Len(log') = Len(log) + 1 /\ SkipWarning(Last(log'))
       ]_vars

C3_Witness ==
  /\ mode = "pipeline" /\ pc = "idle" /\ files.regions.kind = "absent"
  /\ outcome.kind = "returned" /\ outcome.summary # <<>>

PipelineFailed(rec, e) ==
  rec.level = "ERROR" /\ rec.text = "Pipeline failed" /\ rec.arg = <<e>>

\* C4 as claimed: every failure of a stage of run_pipeline is logged by the
\* failing stage itself (an ERROR record of the stage precedes run_pipeline's
\* own "Pipeline failed" record).
C4_EveryStageLogsItsFailure ==
  (mode = "pipeline" /\ outcome.kind = "raised") =>
    /\ Len(log) >= 2
    /\ PipelineFailed(Last(log), outcome.exc)
    /\ log[Len(log) - 1].level = "ERROR"

\* C4 amended: a failure of a loader is logged by the loader and re-raised; a
\* failure of setup_database, create_derived_tables, validate_data_quality or
\* get_data_summary is not logged by the stage; either way run_pipeline logs
\* "Pipeline failed" with the exception and re-raises that same exception to
\* its caller, with no summary.
C4_FailurePropagation ==
  /\ (mode = "pipeline" /\ pc = "idle" /\ ret.kind = "raised") =>
        /\ outcome.kind = "raised" /\ outcome.exc = ret.exc /\ outcome.summary = <<>>
  /\ (mode = "pipeline" /\ outcome.kind = "raised") =>
        /\ pc = "idle"
        /\ ret.kind = "raised"
        /\ Len(log) >= 2
        /\ PipelineFailed(Last(log), outcome.exc)
        /\ IF Last(trace) \in Loaders
             THEN /\ log[Len(log) - 1].level = "ERROR"
                  /\ log[Len(log) - 1].text \in
                       { "Error loading sales data", "Error loading products data",
                         "Error loading regions data" }
                  /\ log[Len(log) - 1].arg = <<outcome.exc>>
             ELSE log[Len(log) - 1].level # "ERROR"

C4_Witness ==
  /\ mode = "pipeline" /\ outcome.kind = "raised"
  /\ Last(trace) = "create_derived_tables"

\* the step is the method m returning
Completes(m) == pc = m /\ ~MethodRaises

\* C5: a setup_database that returns leaves sales, products and regions in
\* existence with their fixed columns and no rows, whatever the database held
\* before, and a second setup_database right after it changes nothing.
C5_SetupIdempotent ==
  [][ Completes("setup_database") =>
        /\ \A t \in BaseTables :
             /\ db'[t].exists
             /\ db'[t].columns = Columns[t]
             /\ db'[t].rows = {}
        /\ SetupDatabaseRun(db', conn', 0).exc = NoExc
        /\ SetupDatabaseRun(db', conn', 0).db = db'
    ]_vars

C5_Witness ==
  /\ calls = <<"run_pipeline", "setup_database">>
  /\ pc = "idle" /\ outcome.kind = "returned"
  /\ db.product_performance.rows # {}
  /\ db.sales.rows = {} /\ db.products.rows = {}

\* C6: run_pipeline always starts at setup_database, on the database as the
\* previous call left it; setup_database, the loaders and the regions test
\* leave monthly_sales and product_performance as they are, while a
\* setup_database that returns empties the base tables; so a rerun that fails
\* before create_derived_tables leaves the derived tables of the previous run.
C6_RerunKeepsDerived ==
  [][ /\ (Len(calls') > Len(calls) /\ Last(calls') = "run_pipeline") =>
            pc' = "setup_database" /\ db' = db
      /\ pc \in {"setup_database", "regions_check"} \cup Loaders =>
            \A t \in DerivedTables : db'[t] = db[t]
      /\ (mode = "pipeline" /\ Completes("setup_database")) =>
            \A t \in BaseTables : db'[t].rows = {}
    ]_vars

\* the second run failed before create_derived_tables: the derived tables are
\* not the ones of the current base tables
C6_Witness ==
  /\ calls = <<"run_pipeline", "run_pipeline">>
  /\ pc = "idle" /\ outcome.kind = "raised"
  /\ "create_derived_tables" \notin Range(trace)
  /\ db.sales.exists /\ db.products.exists
  /\ db.monthly_sales.rows # MonthlySales(db.sales.rows)
  /\ db.product_performance.rows # ProductPerformance(db.products.rows, db.sales.rows, engine)

\* C7 as claimed: after a load_sales_data that returns, on a source file that
\* holds sale records, COUNT(*) of sales is the number of rows of the file.
C7_CountIsFileRows ==
  [][ (Completes("load_sales_data") /\ FileArg("sales").rows # <<>>) =>
        Cardinality(db'.sales.rows) = Len(FileArg("sales").rows)
    ]_vars

\* C7 amended: after a load_sales_data that returns, COUNT(*) of sales is its
\* value before the load plus the number of rows of the source file, and that
\* is the count the loader logs; in run_pipeline, where setup_database has
\* just emptied the table, it is the number of rows of the source file.
C7_CountGrowsByFileRows ==
  [][ Completes("load_sales_data") =>
        /\ Cardinality(db'.sales.rows) = Cardinality(db.sales.rows) + Len(FileArg("sales").rows)
        /\ Last(log').text = "Loaded sales records"
        /\ Last(log').arg = <<Cardinality(db'.sales.rows)>>
        /\ mode = "pipeline" => Cardinality(db'.sales.rows) = Len(FileArg("sales").rows)
    ]_vars

C7_Witness ==
  /\ calls = <<"run_pipeline", "load_sales_data">>
  /\ pc = "idle" /\ outcome.kind = "returned"
  /\ Len(passed.rows) = 1
  /\ Cardinality(db.sales.rows) = 2

\* the insert would put two rows with the same transaction_id into sales
DuplicateTransaction(rows, f) ==
  \/ \E i, j \in 1..Len(f.rows) : i < j /\ f.rows[i].transaction_id = f.rows[j].transaction_id
  \/ \E i \in 1..Len(f.rows) : \E r \in rows : r.transaction_id = f.rows[i].transaction_id

\* C8: a load_sales_data whose file holds a transaction_id twice, or one that
\* is already in sales, raises to its caller and inserts nothing; inside
\* run_pipeline that ends the run with the exception.
C8_DuplicateKeyFails ==
  [][ (pc = "load_sales_data" /\ FileArg("sales").kind = "ok"
         /\ DuplicateTransaction(db.sales.rows, FileArg("sales"))) =>
        /\ ret'.kind = "raised"
        /\ outcome'.kind = "raised" /\ outcome'.exc = ret'.exc
        /\ pc' = "idle"
        /\ db' = db
        /\ (conn = "open" /\ faultsLeft' = faultsLeft /\ db.sales.exists) =>
              ret'.exc = "ConstraintException"
    ]_vars

\* the same file loaded a second time with no setup_database in between
C8_Witness ==
  /\ calls = <<"run_pipeline", "load_sales_data">>
  /\ pc = "idle" /\ passed = files.sales /\ passed.rows # <<>>
  /\ outcome.kind = "raised" /\ outcome.exc = "ConstraintException"
  /\ db.sales.rows = Range(files.sales.rows)

NullViolation(d) ==
  \/ \E r \in d.sales.rows :
       IsNull(r.product_id) \/ IsNull(r.customer_id) \/ IsNull(r.total_amount)
  \/ \E p \in d.products.rows : IsNull(p.product_id) \/ IsNull(p.name)

AmountOrDateViolation(d, t) ==
  \E r \in d.sales.rows :
    \/ ~IsNull(r.total_amount) /\ r.total_amount[1] < 0
    \/ r.sale_date > t

\* C9 as claimed: validate_data_quality returns the empty list exactly when
\* no row of sales or products has a NULL in one of the five checked columns.
C9_EmptyIffNoNull ==
  [][ Completes("validate_data_quality") =>
        (ret'.issues = <<>> <=> ~NullViolation(db))
    ]_vars

\* C9 amended: validate_data_quality returns the empty list exactly when no
\* row violates any of the seven checks: the five NULL checks, total_amount
\* below zero and sale_date after the current date.
C9_EmptyIffNoViolation ==
  [][ Completes("validate_data_quality") =>
        (ret'.issues = <<>> <=> (~NullViolation(db) /\ ~AmountOrDateViolation(db, today)))
    ]_vars

C9_Witness ==
  /\ mode = "pipeline" /\ pc = "get_data_summary"
  /\ ret.kind = "returned" /\ ret.issues = <<>>
  /\ Cardinality(db.sales.rows) = 2 /\ db.products.rows # {}

\* the seven counts, each written out as its own query
ExpectedIssues(d, t) ==
  << Issue(Check("sales", "product_id", "null values"),
           Cardinality({ r \in d.sales.rows : r.product_id = Null })),
     Issue(Check("sales", "customer_id", "null values"),
           Cardinality({ r \in d.sales.rows : r.customer_id = Null })),
     Issue(Check("sales", "total_amount", "null values"),
           Cardinality({ r \in d.sales.rows : r.total_amount = Null })),
     Issue(Check("products", "product_id", "null values"),
           Cardinality({ r \in d.products.rows : r.product_id = Null })),
     Issue(Check("products", "name", "null values"),
           Cardinality({ r \in d.products.rows : r.name = Null })),
     Issue(Check("sales", "total_amount", "negative values"),
           Cardinality({ r \in d.sales.rows : r.total_amount # Null /\ r.total_amount[1] < 0 })),
     Issue(Check("sales", "sale_date", "future dates"),
           Cardinality({ r \in d.sales.rows : r.sale_date > t })) >>

\* C10: the list validate_data_quality returns holds, in checklist order, one
\* entry for each of the seven checks whose count is not zero, carrying that
\* count, and nothing else; it has at most seven entries.
C10_OneIssuePerFailedCheck ==
  [][ Completes("validate_data_quality") =>
        LET expected == ExpectedIssues(db, today)
            hit == { i \in 1..7 : expected[i].count > 0 }
            issues == ret'.issues
        IN  /\ Len(issues) = Cardinality(hit)
            /\ Len(issues) <= 7
            /\ \A i \in hit : issues[Cardinality({ h \in hit : h <= i })] = expected[i]
    ]_vars

C10_Witness ==
  /\ mode = "pipeline" /\ pc = "get_data_summary"
  /\ ret.kind = "returned" /\ Len(ret.issues) >= 4

IssuesWarning(rec) == rec.level = "WARNING" /\ rec.text = "Data quality issues found"

\* C11: findings of validate_data_quality are not fatal: on an open connection
\* with sales and products in place and no engine failure, the method returns
\* even when a check finds a violation, and the list it returns is then not
\* empty; run_pipeline goes on to get_data_summary with nothing decided yet;
\* and the summary a run returns is the summary of the tables alone, with no
\* entry for the findings, so it is the same whether or not the list was empty.
C11_FindingsNotFatal ==
  /\ [][ (pc = "validate_data_quality" /\ conn = "open" /\ faultsLeft' = faultsLeft
           /\ db.sales.exists /\ db.products.exists
           /\ (NullViolation(db) \/ AmountOrDateViolation(db, today))) =>
          /\ ret'.kind = "returned" /\ ret'.exc = NoExc
          /\ ret'.issues # <<>>
          /\ IssuesWarning(Last(log'))
          /\ mode = "pipeline" => (pc' = "get_data_summary" /\ outcome' = outcome)
       ]_vars
  /\ []((mode = "pipeline" /\ outcome.kind = "returned") =>
          /\ outcome.summary = <<Summary(db)>>
          /\ outcome.issues = <<>>
          /\ DOMAIN outcome.summary[1] =
               {"sales", "products", "regions", "sales_date_range", "total_revenue"})

\* a run that found violations and returned its summary
C11_Witness ==
  /\ mode = "pipeline" /\ pc = "idle" /\ outcome.kind = "returned"
  /\ \E i \in 1..Len(log) : IssuesWarning(log[i])
  /\ outcome.summary = <<Summary(db)>>
  /\ AmountOrDateViolation(db, today)

\* the exact total of the total_amount values of a set of rows
RECURSIVE Total(_)
Total(rows) ==
  IF rows = {} THEN 0
  ELSE LET r == CHOOSE x \in rows : TRUE IN r.total_amount[1] + Total(rows \ {r})

IsoDate(d) == ToString(d \div 10000) \o "-" \o Pad2((d \div 100) % 100) \o "-" \o Pad2(d % 100)

SummaryKeys == {"sales", "products", "regions", "sales_date_range", "total_revenue"}

\* C12 as claimed: the mapping get_data_summary returns has exactly the five
\* keys; sales, products and regions are the row counts of the tables;
\* sales_date_range is "<min sale_date> to <max sale_date>"; total_revenue is a
\* number, the sum of total_amount over sales; for every content of the base
\* tables, an empty sales table included.
C12_SummaryOfEveryTable ==
  [][ Completes("get_data_summary") =>
        LET sm == ret'.summary[1]
            rows == db.sales.rows
            dates == { r.sale_date : r \in rows }
        IN  /\ DOMAIN sm = SummaryKeys
            /\ sm.sales = Cardinality(rows)
            /\ sm.products = Cardinality(db.products.rows)
            /\ sm.regions = Cardinality(db.regions.rows)
            /\ \E lo, hi \in dates :
                 /\ \A x \in dates : lo <= x /\ x <= hi
                 /\ sm.sales_date_range = IsoDate(lo) \o " to " \o IsoDate(hi)
            /\ (\A r \in rows : ~IsNull(r.total_amount)) =>
                 (sm.total_revenue # Null /\ sm.total_revenue = <<Total(rows)>>)
    ]_vars

\* a run over a sales.csv with no record returned a summary whose
\* total_revenue is None and whose date range is "None to None"
C12_Witness ==
  /\ mode = "pipeline" /\ pc = "idle" /\ outcome.kind = "returned"
  /\ db.sales.rows = {}
  /\ outcome.summary[1].sales = 0
  /\ outcome.summary[1].total_revenue = Null
  /\ outcome.summary[1].sales_date_range = "None to None"

\* the sales whose product_id is the product_id of the product p
SalesOf(p, sales) == { r \in sales : r.product_id # Null /\ r.product_id = p.product_id }

\* C13: after a create_derived_tables that returns, product_performance has
\* exactly one row for every row of products, counting that product's sales;
\* a product with no matching sale is there with transaction_count 0 and NULL
\* total_revenue, total_quantity_sold, avg_selling_price and margin_percent;
\* a sale whose product_id matches no product is counted in no row.
C13_LeftJoinKeepsProducts ==
  [][ Completes("create_derived_tables") =>
        LET pp == db'.product_performance.rows
            products == db.products.rows
            sales == db.sales.rows
            matched == { r \in sales : \E p \in products : r \in SalesOf(p, sales) }
        IN  /\ Cardinality(pp) = Cardinality(products)
            /\ \A p \in products :
                 \E row \in pp :
                   /\ row.product_id = p.product_id
                   /\ \A other \in pp : other.product_id = p.product_id => other = row
                   /\ row.transaction_count = Cardinality(SalesOf(p, sales))
                   /\ SalesOf(p, sales) = {} =>
                        /\ row.transaction_count = 0
                        /\ row.total_revenue = Null
                        /\ row.total_quantity_sold = Null
                        /\ row.avg_selling_price = Null
                        /\ row.margin_percent.value = Null
                        /\ row.margin_percent.kind = "null"
            /\ SumF(pp, [row \in pp |-> row.transaction_count]) = Cardinality(matched)
    ]_vars

\* one product sold and one not, and a sale of a product that is not in products
C13_Witness ==
  /\ mode = "pipeline" /\ pc = "validate_data_quality" /\ ret.kind = "returned"
  /\ \E row \in db.product_performance.rows : row.transaction_count = 0
  /\ \E row \in db.product_performance.rows : row.transaction_count > 0
  /\ \E r \in db.sales.rows :
       r.product_id # Null /\ \A p \in db.products.rows : p.product_id # r.product_id

\* C14: create_derived_tables computes margin_percent of every product as
\* (AVG(unit_price) of its sales - cost) / cost * 100 and never tests cost: for
\* a sold product whose cost is not 0 it is that quotient; for a sold product
\* whose cost is 0 it is the outcome of dividing by zero, which the engine
\* gives as NULL or as an IEEE 754 infinity or NaN; the method returns all the
\* same.
C14_MarginDividesByCost ==
  [][ (pc = "create_derived_tables" /\ conn = "open" /\ faultsLeft' = faultsLeft
         /\ db.sales.exists /\ db.products.exists) =>
        /\ ret'.kind = "returned"
        /\ \A p \in db.products.rows :
             \E row \in db'.product_performance.rows :
               LET sold == SalesOf(p, db.sales.rows)
                   n == Cardinality(sold)
                   total == SumF(sold, [r \in sold |-> r.unit_price])
                   m == row.margin_percent
               IN  /\ row.product_id = p.product_id
                   /\ row.cost = p.cost
                   /\ (sold # {} /\ p.cost # 0) =>
                        /\ m.kind = "value"
                        /\ m.value # Null
                        /\ m.value[1].den > 0
                        /\ m.value[1].num * (n * p.cost) = (total - n * p.cost) * 100 * m.value[1].den
                   /\ (sold # {} /\ p.cost = 0) =>
                        /\ m.kind = "division_by_zero"
                        /\ m.value = Null \/ m.value[1].den = 0
    ]_vars

\* a run over a sold product of cost 0: its margin_percent is x / 0
C14_Witness ==
  /\ mode = "pipeline" /\ pc = "validate_data_quality" /\ ret.kind = "returned"
  /\ \E row \in db.product_performance.rows :
       /\ row.cost = 0 /\ row.transaction_count > 0
       /\ row.margin_percent.kind = "division_by_zero"
       /\ row.margin_percent.value = <<[num |-> 1, den |-> 0]>>
  /\ \E row \in db.product_performance.rows :
       row.cost # 0 /\ row.margin_percent.kind = "value"

\* the rows of a set whose total_amount is not NULL
WithAmount(rows) == { r \in rows : r.total_amount # Null }

\* C15: after a create_derived_tables that returns, monthly_sales has exactly
\* one row for each (year, month, region) that occurs in sales, carrying the
\* number of sales of the group, the sum and the average of their total_amount
\* (NULL when none has one) and the sum of their quantity; so the
\* transaction_count values add up to the number of rows of sales and the
\* total_revenue values add up to the sum of total_amount over sales.
C15_MonthlyGroups ==
  [][ Completes("create_derived_tables") =>
        LET ms == db'.monthly_sales.rows
            sales == db.sales.rows
            KeyOf(r) == <<r.sale_date \div 10000, (r.sale_date \div 100) % 100, r.region>>
            keys == { KeyOf(r) : r \in sales }
            counted == { row \in ms : row.total_revenue # Null }
        IN  /\ Cardinality(ms) = Cardinality(keys)
            /\ \A row \in ms : <<row.year, row.month, row.region>> \in keys
            /\ \A key \in keys :
                 \E row \in ms :
                   LET group == { r \in sales : KeyOf(r) = key }
                       paid == WithAmount(group)
                   IN  /\ <<row.year, row.month, row.region>> = key
                       /\ row.transaction_count = Cardinality(group)
                       /\ row.total_quantity = <<SumF(group, [r \in group |-> r.quantity])>>
                       /\ IF paid = {}
                            THEN row.total_revenue = Null /\ row.avg_transaction_value = Null
                            ELSE /\ row.total_revenue = <<Total(paid)>>
                                 /\ row.avg_transaction_value # Null
                                 /\ row.avg_transaction_value[1].den > 0
                                 /\ row.avg_transaction_value[1].num * Cardinality(paid) =
                                      Total(paid) * row.avg_transaction_value[1].den
            /\ SumF(ms, [row \in ms |-> row.transaction_count]) = Cardinality(sales)
            /\ SumF(counted, [row \in counted |-> row.total_revenue[1]]) = Total(WithAmount(sales))
            /\ counted = {} <=> WithAmount(sales) = {}
    ]_vars

\* two sales of one month and region make one row
C15_Witness ==
  /\ mode = "pipeline" /\ pc = "validate_data_quality" /\ ret.kind = "returned"
  /\ Cardinality(db.sales.rows) = 2
  /\ \E row \in db.monthly_sales.rows :
       /\ row.transaction_count = 2
       /\ row.total_quantity = <<3>>
       /\ row.total_revenue = <<100>>
       /\ row.avg_transaction_value = <<[num |-> 50, den |-> 1]>>

\* C16: a create_derived_tables that returns leaves the base tables as they
\* were and makes monthly_sales and product_performance the tables computed
\* from the base tables as they are now: a row an earlier call left that the
\* base tables no longer give is gone; and a second create_derived_tables
\* right after it changes nothing.
C16_DerivedReplaced ==
  [][ Completes("create_derived_tables") =>
        LET monthly == MonthlySales(db.sales.rows)
            performance == ProductPerformance(db.products.rows, db.sales.rows, engine)
            again == CreateDerivedTablesRun(db', conn', 0, engine')
        IN  /\ \A t \in BaseTables : db'[t] = db[t]
            /\ db'.monthly_sales = Table(Columns.monthly_sales, monthly)
            /\ db'.product_performance = Table(Columns.product_performance, performance)
            /\ \A row \in db.monthly_sales.rows \ monthly : row \notin db'.monthly_sales.rows
            /\ \A row \in db.product_performance.rows \ performance :
                 row \notin db'.product_performance.rows
            /\ again.exc = NoExc
            /\ again.db = db'
    ]_vars

\* the tables a run derived, recomputed after setup_database emptied the base
\* tables: nothing of the run is left in them
C16_Witness ==
  /\ calls = <<"run_pipeline", "setup_database", "create_derived_tables">>
  /\ pc = "idle" /\ outcome.kind = "returned"
  /\ db.monthly_sales.exists /\ db.monthly_sales.rows = {}
  /\ db.product_performance.exists /\ db.product_performance.rows = {}

\* C17: validate_data_quality and get_data_summary change no table: sales,
\* products, regions, monthly_sales and product_performance are after the
\* call what they were before it, whether the call returns or raises and
\* whatever its checks and queries find.
C17_ReadOnly ==
  [][ (pc = "validate_data_quality" \/ pc = "get_data_summary") =>
        /\ \A t \in BaseTables \cup DerivedTables : db'[t] = db[t]
        /\ DOMAIN db' = DOMAIN db
    ]_vars

\* a run that found violations and returned its summary, over tables that
\* still hold every row that was loaded and derived
C17_Witness ==
  /\ mode = "pipeline" /\ pc = "idle" /\ outcome.kind = "returned"
  /\ \E i \in 1..Len(log) : IssuesWarning(log[i])
  /\ NullViolation(db)
  /\ db.sales.rows = Range(files.sales.rows) /\ Cardinality(db.sales.rows) = 2
  /\ db.products.rows = Range(files.products.rows)
  /\ db.monthly_sales.rows = MonthlySales(db.sales.rows)
  /\ db.product_performance.rows # {}

Closes == { i \in 1..Len(calls) : calls[i] = "close" }

\* C18: in main the connection opened by the constructor stays open as long
\* as run_pipeline runs; once run_pipeline has returned or raised, the next
\* thing main does is close(), so every execution of main reaches the closed
\* connection; close() is called once; and after it no stage runs and no
\* table changes.
C18_ClosedOnceOnEveryPath ==
  /\ [](/\ Cardinality(Closes) <= 1
        /\ conn = "closed" <=> Closes # {}
        /\ conn = "closed" =>
             (calls = <<"run_pipeline", "close">> /\ pc = "idle"
                /\ outcome.kind \in {"returned", "raised"})
        /\ pc # "idle" => conn = "open")
  /\ [][ /\ (calls = <<"run_pipeline">> /\ pc = "idle") =>
               (conn' = "closed" /\ outcome' = outcome /\ db' = db)
         /\ conn = "closed" => UNCHANGED <<db, trace, pc, calls>>
       ]_vars
  /\ <>(conn = "closed")

\* run_pipeline raised and main closed the connection before passing the
\* exception on
C18_Witness ==
  /\ calls = <<"run_pipeline", "close">>
  /\ conn = "closed" /\ pc = "idle"
  /\ outcome.kind = "raised"
  /\ trace # <<>>

\* the required fields a record does not have
MissingOf(t) == { i \in 1..Len(RequiredFields) : t[RequiredFields[i]].type = "absent" }

\* the entries of a list that report a missing field
MissingEntries(errors) ==
  { i \in 1..Len(errors) :
      \E j \in 1..Len(RequiredFields) : errors[i] = "Missing required field: " \o RequiredFields[j] }

\* the list has exactly one "Missing required field" entry for each missing
\* field of the record
OneEntryPerMissingField(t, errors) ==
  /\ \A j \in MissingOf(t) :
       Cardinality({ i \in 1..Len(errors) :
                      errors[i] = "Missing required field: " \o RequiredFields[j] }) = 1
  /\ Cardinality(MissingEntries(errors)) = Cardinality(MissingOf(t))

\* C19 as claimed: for every record that lacks one of the seven required
\* fields, validate_transaction_data returns a result with valid false and a
\* non-empty errors list that holds exactly one "Missing required field"
\* entry for each missing field.
C19_MissingFieldsInvalid ==
  (validation # NotValidated /\ MissingOf(transaction) # {}) =>
    /\ validation.kind = "returned"
    /\ validation.valid = FALSE
    /\ validation.errors # <<>>
    /\ OneEntryPerMissingField(transaction, validation.errors)

\* a record without a date whose total_amount is None: the call raises
\* TypeError and gives no result
C19_Witness ==
  /\ validation.kind = "raised" /\ validation.exc = "TypeError"
  /\ MissingOf(transaction) = {2}
  /\ transaction.quantity = PyInt(2) /\ transaction.unit_price = PyFloat(2999)
  /\ transaction.total_amount = PyNone

\* x is a number greater than 0
PositiveNumber(x) == x.type \in {"int", "float", "bool"} /\ ~x.nan /\ x.v > 0

\* C20 as claimed: for every record that has all seven required fields, with
\* a quantity and a unit_price that are numbers greater than 0,
\* validate_transaction_data returns valid = true and errors = [].
C20_CompleteRecordValid ==
  (validation # NotValidated /\ MissingOf(transaction) = {}
     /\ PositiveNumber(transaction.quantity) /\ PositiveNumber(transaction.unit_price)) =>
    /\ validation.kind = "returned"
    /\ validation.valid = TRUE
    /\ validation.errors = <<>>

\* the record of the example with total_amount as text: the call raises
\* TypeError and gives no result
C20_Witness ==
  /\ validation.kind = "raised" /\ validation.exc = "TypeError"
  /\ MissingOf(transaction) = {}
  /\ transaction.quantity = PyInt(2) /\ transaction.unit_price = PyFloat(2999)
  /\ transaction.total_amount = PyStr2

\* x is not a number, or is a number that is <= 0
NotAPositiveNumber(x) ==
  \/ x.type \notin {"int", "float", "bool"}
  \/ ~x.nan /\ x.v <= 0

Members(list) == { list[i] : i \in 1..Len(list) }

\* C21 as claimed: for every record that has a quantity that is not a number
\* or is <= 0, whatever fields it has otherwise, validate_transaction_data
\* returns a result with valid false and the error "Quantity must be a
\* positive number" in errors; likewise for unit_price and "Unit price must
\* be a positive number".
C21_NonPositiveInvalid ==
  /\ (validation # NotValidated /\ transaction.quantity.type # "absent"
        /\ NotAPositiveNumber(transaction.quantity)) =>
       /\ validation.kind = "returned"
       /\ validation.valid = FALSE
       /\ "Quantity must be a positive number" \in Members(validation.errors)
  /\ (validation # NotValidated /\ transaction.unit_price.type # "absent"
        /\ NotAPositiveNumber(transaction.unit_price)) =>
       /\ validation.kind = "returned"
       /\ validation.valid = FALSE
       /\ "Unit price must be a positive number" \in Members(validation.errors)

\* the record of the example with quantity as text: the call raises TypeError
\* and gives no result
C21_Witness ==
  /\ validation.kind = "raised" /\ validation.exc = "TypeError"
  /\ MissingOf(transaction) = {}
  /\ transaction.quantity = PyStr2
  /\ transaction.unit_price = PyFloat(2999) /\ transaction.total_amount = PyFloat(5998)

\* the record with the total_amount that quantity * unit_price gives
WithMatchingTotal(t) ==
  [t EXCEPT !.total_amount = PyVal("float", (t.quantity.v * t.unit_price.v) \div 100, FALSE)]

\* total_amount differs from quantity * unit_price by more than 0.01
Mismatch(t) ==
  \/ t.quantity.v * t.unit_price.v - t.total_amount.v * 100 > 100
  \/ t.total_amount.v * 100 - t.quantity.v * t.unit_price.v > 100

\* C22 (a step that extends trace is the method at pc being executed):
\* total_amount = quantity x unit_price is flagged, not enforced: for a
\* record of numbers validate_transaction_data adds one "Total amount
\* mismatch" warning when the two differ by more than 0.01, and valid and
\* errors are what they are for the same record with the matching total;
\* load_sales_data inserts the row of such a record as it does any other; and
\* validate_data_quality reports only NULLs, negative amounts and future
\* dates, so for such a row with a total_amount >= 0 it returns the empty
\* list.
C22_MismatchOnlyFlagged ==
  /\ []((validation # NotValidated /\ Mismatch(transaction)) =>
          /\ validation.kind = "returned"
          /\ Len(validation.warnings) = 1
          /\ validation.warnings[1].text = "Total amount mismatch"
          /\ validation.valid = ValidateTransactionDataRun(WithMatchingTotal(transaction)).valid
          /\ validation.errors = ValidateTransactionDataRun(WithMatchingTotal(transaction)).errors)
  /\ []((validation # NotValidated /\ ~Mismatch(transaction)) => validation.warnings = <<>>)
  /\ [][ /\ (mode = "pipeline" /\ pc = "load_sales_data" /\ trace' # trace
               /\ Mismatch(transaction)) =>
               /\ ret'.kind = "returned"
               /\ db'.sales.rows = {SaleOf(transaction)}
         /\ (mode = "pipeline" /\ pc = "validate_data_quality" /\ trace' # trace
               /\ Mismatch(transaction)) =>
               /\ ret'.kind = "returned"
               /\ \A i \in 1..Len(ret'.issues) :
                    ret'.issues[i].kind \in {"null values", "negative values", "future dates"}
               /\ transaction.total_amount.v >= 0 => ret'.issues = <<>>
       ]_vars

\* a record whose total_amount does not match: the validator returned it as
\* valid with a warning, and a run over the file that holds it loaded it,
\* found nothing and returned its summary
C22_Witness ==
  /\ Mismatch(transaction)
  /\ validation.kind = "returned" /\ validation.valid /\ validation.warnings # <<>>
  /\ mode = "pipeline" /\ pc = "idle" /\ outcome.kind = "returned"
  /\ SaleOf(transaction) \in db.sales.rows
  /\ \A i \in 1..Len(log) : ~IssuesWarning(log[i])

\* the arguments are ordinary numbers that pass / fail the test of line 79
PriceRefused == ~arguments.price.nan /\ arguments.price.v <= 0
CostRefused == ~arguments.cost.nan /\ arguments.cost.v < 0
PriceAndCostInRange ==
  /\ ~arguments.price.nan /\ arguments.price.v > 0
  /\ ~arguments.cost.nan /\ arguments.cost.v >= 0

\* C23: calculate_profit_metrics raises an error exactly when price <= 0 or
\* cost < 0 (the ValueError of line 80); for price > 0 and cost >= 0 it
\* returns a result, and no division by price is a division by zero
C23_RaisesExactlyWhenRefused ==
  metrics # NotCalculated =>
    /\ metrics.kind = "raised" <=> (PriceRefused \/ CostRefused)
    /\ metrics.kind = "raised" => metrics.exc = "ValueError"
    /\ PriceAndCostInRange => metrics.kind = "returned"
    /\ metrics.exc # "ZeroDivisionError"

C23_Witness ==
  /\ arguments.price = PyFloat(0)
  /\ ~CostRefused
  /\ metrics.kind = "raised"
  /\ metrics.exc = "ValueError"

\* the call was made with these arguments (price and cost in hundredths)
CalledWith(price, cost, quantity) ==
  /\ metrics # NotCalculated
  /\ arguments.price.v = price /\ ~arguments.price.nan
  /\ arguments.cost.v = cost /\ ~arguments.cost.nan
  /\ arguments.quantity = PyInt(quantity)

\* C24: for price > 0 and cost >= 0 the result holds, each as the nearest
\* value with two decimals, profit_per_unit = price - cost,
\* margin_percentage = (price - cost) / price * 100, total_revenue =
\* price * quantity and total_profit = (price - cost) * quantity;
\* (100.0, 60.0, 1) gives 40.0, 40.0, 100.0, 40.0 and (29.99, 18.50, 10)
\* gives profit_per_unit 11.49, total_revenue 299.90, total_profit 114.90
C24_MetricsRounded ==
  /\ (metrics # NotCalculated /\ PriceAndCostInRange) =>
       LET p == arguments.price.v
           c == arguments.cost.v
           q == arguments.quantity.v \div 100
       IN  /\ metrics.kind = "returned"
           /\ metrics.profit_per_unit = Rounded(p - c, FALSE)
           /\ ~metrics.margin_percentage.nan
           /\ 2 * Abs(metrics.margin_percentage.v * p - (p - c) * 10000) <= p
           /\ metrics.total_revenue = Rounded(p * q, FALSE)
           /\ metrics.total_profit = Rounded((p - c) * q, FALSE)
  /\ CalledWith(10000, 6000, 1) =>
       /\ metrics.profit_per_unit = Rounded(4000, FALSE)
       /\ metrics.margin_percentage = Rounded(4000, FALSE)
       /\ metrics.total_revenue = Rounded(10000, FALSE)
       /\ metrics.total_profit = Rounded(4000, FALSE)
  /\ CalledWith(2999, 1850, 10) =>
       /\ metrics.profit_per_unit = Rounded(1149, FALSE)
       /\ metrics.total_revenue = Rounded(29990, FALSE)
       /\ metrics.total_profit = Rounded(11490, FALSE)

C24_Witness ==
  /\ CalledWith(2999, 1850, 10)
  /\ metrics.kind = "returned"
  /\ metrics.margin_percentage = Rounded(3831, FALSE)

\* the file at the path does not exist or cannot be read as a CSV file
CannotBeRead == csv_file.kind \in {"absent", "unreadable", "malformed"}

\* C25: for an input file that does not exist or cannot be read,
\* analyze_sales_data_quality and benchmark_data_loading do not raise: each
\* returns a mapping that has the key 'error'
C25_ErrorKeyInsteadOfRaise ==
  CannotBeRead =>
    /\ quality_report # NoMapping =>
         /\ quality_report.kind = "returned"
         /\ "error" \in quality_report.keys
    /\ results # NoMapping =>
         /\ results.kind = "returned"
         /\ "error" \in results.keys

C25_Witness ==
  /\ csv_file = UnreadableFile
  /\ quality_report.kind = "returned" /\ quality_report.keys = {"error"}
  /\ results.kind = "returned" /\ results.keys = {"error"}

\* C26: in every result of validate_transaction_data valid is true exactly
\* when errors is empty, whether or not there are warnings
C26_ValidIffNoErrors ==
  validation.kind = "returned" => (validation.valid <=> validation.errors = <<>>)

\* a result with an error and a warning
C26_Witness ==
  /\ validation.kind = "returned"
  /\ validation.errors # <<>>
  /\ validation.warnings # <<>>
  /\ ~validation.valid

\* the current run of run_pipeline has taken the regions-skip branch
RegionsSkipped == mode = "pipeline" /\ "skip_regions" \in Range(trace)

\* C27: once run_pipeline has taken the regions-skip branch, the regions
\* table exists and is empty for the rest of the run, whatever earlier calls
\* left in it; get_data_summary does not fail on it, and the summary the run
\* returns has regions = 0
C27_SkippedRegionsEmpty ==
  RegionsSkipped =>
    /\ db.regions.exists
    /\ db.regions.rows = {}
    /\ Last(trace) = "get_data_summary" => ret.exc # "CatalogException"
    /\ outcome.kind = "returned" =>
         /\ Last(trace) = "get_data_summary"
         /\ outcome.summary[1].regions = 0

\* a second run on the same pipeline object, after a direct call of
\* load_regions_data, took the skip branch and returned its summary
C27_Witness ==
  /\ calls = <<"run_pipeline", "load_regions_data", "run_pipeline">>
  /\ RegionsSkipped
  /\ pc = "idle"
  /\ outcome.kind = "returned"
  /\ outcome.summary[1].regions = 0

====
